---- MODULE Spec2Model ----
(***************************************************************************)
(* Model of the Jama trace-item filter engine of utils/jama_report.py:     *)
(* the voluptuous schemas that decode a filter definition, the Condition   *)
(* and ConditionGroup constructors, their evaluation against an item, and  *)
(* JamaFilter.load / JamaFilter.__call__.                                  *)
(*                                                                         *)
(* Encoding conventions                                                    *)
(*   - a Python dict is a function whose DOMAIN is its set of keys;        *)
(*   - a Python value that may be None is a sequence of length 0 (None)    *)
(*     or 1 (the value);                                                   *)
(*   - a string that goes through a string comparator is a sequence of     *)
(*     characters; identifiers, types and tag names are atomic strings;    *)
(*   - a group member that is a name (basestring) is [ref |-> name];       *)
(*   - the outcome of an evaluation is "T", "F", the name of the exception *)
(*     it raises, or Diverges when the recursion does not bottom out.      *)
(***************************************************************************)
EXTENDS Integers, Sequences, FiniteSets, TLC

VARIABLES
    conditions,   \* the decoded YAML document handed to JamaFilter.load
    jfilter,      \* the JamaFilter built by load: <<>> or <<[main_condition, named_conditions]>>
    items,        \* the item collection handed to the filter
    pc,           \* "start", "loaded", "load_failed"
    load_error,   \* exception raised by load, "" when none
    last_call,    \* outcome of the last main_condition(item, item_map, named_conditions) call
    result,       \* outcome of the last JamaFilter.__call__(items)
    class_authentication,  \* RestApi subclass attribute _authentication
    clients,      \* the RestApi clients created so far, each with its _authentication
    dialogs,      \* number of auth dialogs shown to the user
    last_auth,    \* what the last prompt_for_auth call did
    comparison    \* the last direct call of a comparator and its outcome

filter_vars == <<conditions, jfilter, items, pc, load_error, last_call, result>>
rest_vars == <<class_authentication, clients, dialogs, last_auth>>
comp_vars == <<comparison>>
vars == <<conditions, jfilter, items, pc, load_error, last_call, result,
          class_authentication, clients, dialogs, last_auth, comparison>>

----------------------------------------------------------------------------
(* Bounds *)

MaxDepth == 4          \* call depth after which an evaluation counts as divergent
MaxItems == 3          \* longest item collection of the apply specification
MaxRels == 3           \* longest relationship list of the quantification specification
MaxCountRels == 5      \* longest relationship list of the counting specification
MaxPathLen == 2        \* longest item location of the condition specification
MaxMembers == 2        \* longest member list of the group logic specification
MaxGroupItems == 2     \* longest item collection of the group logic specification
MaxClients == 2        \* most RestApi clients created
MaxDialogs == 3        \* most auth dialogs shown

----------------------------------------------------------------------------
(* Python values *)

None == <<>>
Some(x) == <<x>>
IsNone(o) == Len(o) = 0
Val(o) == o[1]

EmptyDict == <<>>
Get(d, k) == IF k \in DOMAIN d THEN Some(d[k]) ELSE None
GetDefault(d, k, default) == IF k \in DOMAIN d THEN d[k] ELSE default

Range(s) == {s[i] : i \in 1..Len(s)}

\* dict_get_first: key and value of the first listed key present, else (None, None)
DictGetFirst(d, keys) ==
    LET present == {i \in 1..Len(keys) : keys[i] \in DOMAIN d}
    IN  IF present = {} THEN <<None, None>>
        ELSE LET i == CHOOSE j \in present : \A k \in present : j <= k
             IN  <<Some(keys[i]), Some(d[keys[i]])>>

----------------------------------------------------------------------------
(* Schema constants *)

STR_CONTAINS == "contains"
STR_DOES_NOT_CONTAIN == "does not contain"
STR_IS == "is"
STR_IS_NOT == "is not"
STR_IN == "in"
STR_NOT_IN == "not in"
STR_MATCHES == "matches"
DATE_BEFORE == "before"
DATE_AFTER == "after"
NUM_IS == "is"
NUM_IS_NOT == "is not"
NUM_IN == "in"
NUM_NOT_IN == "not in"
NUM_GREATER_THAN == "greater than"
NUM_GREATER_THAN_EQ == "greater than or equal to"
NUM_LESS_THAN == "less than"
NUM_LESS_THAN_EQ == "less than or equal to"
RELS_WITH_TYPE == "with relationship type"
RELS_COUNT == "count"
RELS_ALL_MATCH == "all match"
RELS_COUNT_MATCH == "count match"
RELS_NONE_MATCH == "none match"
RELS_COUNT_UNKNOWNS == "count unknowns"
LOCATION == "location"
LOCATION_IS_UNDER == "is under"
LOCATION_IS_NOT_UNDER == "is not under"
LOCATION_EVERY_NODE == "every node"
LOCATION_NO_NODE == "no node"
FIELD == "field"
FIELD_NAME == "name"
FIELD_VALUE == "value"
FIELD_REQUIRED == "required"
CREATED == "created"
MODIFIED == "modified"
TAGS == "tags"
TAGS_INCLUDE == "include"
TAGS_EXCLUDE == "exclude"
UPSTREAM_ITEMS == "upstream items"
DOWNSTREAM_ITEMS == "downstream items"
GROUP_TYPE == "type"
GROUP_ALL == "according to all"
GROUP_ANY == "according to any"

StrModes == <<STR_CONTAINS, STR_DOES_NOT_CONTAIN, STR_IS, STR_IS_NOT,
              STR_IN, STR_NOT_IN, STR_MATCHES>>
NumEqModes == <<NUM_IS, NUM_IS_NOT, NUM_IN, NUM_NOT_IN>>
NumOrdModes == <<NUM_GREATER_THAN, NUM_GREATER_THAN_EQ,
                 NUM_LESS_THAN, NUM_LESS_THAN_EQ>>
LocationModes == <<LOCATION_IS_UNDER, LOCATION_IS_NOT_UNDER,
                   LOCATION_EVERY_NODE, LOCATION_NO_NODE>>
RelsModes == <<RELS_ALL_MATCH, RELS_COUNT_MATCH, RELS_NONE_MATCH>>
GroupModes == <<GROUP_ALL, GROUP_ANY>>
Attributes == {LOCATION, FIELD, CREATED, MODIFIED, TAGS,
               UPSTREAM_ITEMS, DOWNSTREAM_ITEMS}

\* exceptions
InvalidCondition == "InvalidCondition"   \* jama_report.InvalidCondition
Invalid == "Invalid"                     \* voluptuous.Invalid and its subclasses
TypeError == "TypeError"
Diverges == "Diverges"                   \* recursion that never returns a boolean

Bool(b) == IF b THEN "T" ELSE "F"

----------------------------------------------------------------------------
(* Scalar comparators *)

\* case folding of re.IGNORECASE on the alphabet of the model
Lower(c) ==
    LET upper == <<"A", "B", "C", "O", "X">>
        lower == <<"a", "b", "c", "o", "x">>
    IN  IF \E i \in 1..Len(upper) : upper[i] = c
        THEN lower[CHOOSE i \in 1..Len(upper) : upper[i] = c]
        ELSE c

\* comp_value in value, on strings
Contains(value, sub) ==
    \E k \in 0..(Len(value) - Len(sub)) :
        \A i \in 1..Len(sub) : value[k + i] = sub[i]

\* comp_value.match(value) is not None, for a pattern of literal characters
\* compiled with re.IGNORECASE: the pattern matches at the start of value
ReMatch(pattern, value) ==
    /\ Len(pattern) <= Len(value)
    /\ \A i \in 1..Len(pattern) : Lower(pattern[i]) = Lower(value[i])

\* _strcomp in which an unknown logic matches nothing
_strcomp_UnknownIsNoMatch(value, comp_value, logic) ==
    IF logic = STR_CONTAINS THEN Bool(Contains(value, comp_value))
    ELSE IF logic = STR_DOES_NOT_CONTAIN THEN Bool(~Contains(value, comp_value))
    ELSE IF logic = STR_IS THEN Bool(value = comp_value)
    ELSE IF logic = STR_IS_NOT THEN Bool(value # comp_value)
    ELSE IF logic = STR_IN THEN Bool(value \in Range(comp_value))
    ELSE IF logic = STR_NOT_IN THEN Bool(value \notin Range(comp_value))
    ELSE IF logic = STR_MATCHES THEN Bool(ReMatch(comp_value, value))
    ELSE "F"

\* Condition._strcomp
_strcomp(value, comp_value, logic) ==
    IF logic = STR_CONTAINS THEN Bool(Contains(value, comp_value))
    ELSE IF logic = STR_DOES_NOT_CONTAIN THEN Bool(~Contains(value, comp_value))
    ELSE IF logic = STR_IS THEN Bool(value = comp_value)
    ELSE IF logic = STR_IS_NOT THEN Bool(value # comp_value)
    ELSE IF logic = STR_IN THEN Bool(value \in Range(comp_value))
    ELSE IF logic = STR_NOT_IN THEN Bool(value \notin Range(comp_value))
    ELSE IF logic = STR_MATCHES THEN Bool(ReMatch(comp_value, value))
    ELSE InvalidCondition

\* _numcomp with "greater than" admitting equality
_numcomp_GreaterAdmitsEqual(value, comp_value, logic) ==
    IF logic = NUM_IS THEN Bool(value = comp_value)
    ELSE IF logic = NUM_IS_NOT THEN Bool(value # comp_value)
    ELSE IF logic = NUM_IN THEN Bool(value \in Range(comp_value))
    ELSE IF logic = NUM_NOT_IN THEN Bool(value \notin Range(comp_value))
    ELSE IF logic = NUM_GREATER_THAN THEN Bool(value >= comp_value)
    ELSE IF logic = NUM_GREATER_THAN_EQ THEN Bool(value >= comp_value)
    ELSE IF logic = NUM_LESS_THAN THEN Bool(value < comp_value)
    ELSE IF logic = NUM_LESS_THAN_EQ THEN Bool(value <= comp_value)
    ELSE InvalidCondition

\* Condition._numcomp
_numcomp(value, comp_value, logic) ==
    IF logic = NUM_IS THEN Bool(value = comp_value)
    ELSE IF logic = NUM_IS_NOT THEN Bool(value # comp_value)
    ELSE IF logic = NUM_IN THEN Bool(value \in Range(comp_value))
    ELSE IF logic = NUM_NOT_IN THEN Bool(value \notin Range(comp_value))
    ELSE IF logic = NUM_GREATER_THAN THEN Bool(value > comp_value)
    ELSE IF logic = NUM_GREATER_THAN_EQ THEN Bool(value >= comp_value)
    ELSE IF logic = NUM_LESS_THAN THEN Bool(value < comp_value)
    ELSE IF logic = NUM_LESS_THAN_EQ THEN Bool(value <= comp_value)
    ELSE InvalidCondition

\* all(f(x) for x in xs) over a list of outcomes: the generator stops at the
\* first False and an exception raised before that point propagates
RECURSIVE AllOf(_)
AllOf(outs) ==
    IF Len(outs) = 0 THEN "T"
    ELSE IF Head(outs) = "T" THEN AllOf(Tail(outs))
    ELSE Head(outs)

\* any() that reports the outcome of the last element only
AnyOf_LastOnly(outs) ==
    IF Len(outs) = 0 THEN "F" ELSE outs[Len(outs)]

\* any(f(x) for x in xs): stops at the first True
RECURSIVE AnyOf(_)
AnyOf(outs) ==
    IF Len(outs) = 0 THEN "F"
    ELSE IF Head(outs) = "F" THEN AnyOf(Tail(outs))
    ELSE Head(outs)

\* not x, applied to an outcome
Not(out) == IF out = "T" THEN "F" ELSE IF out = "F" THEN "T" ELSE out

\* all(self._numcomp(value=n, comp_value=v, logic=l) for l, v in count)
NumCompAll(n, count) ==
    AllOf([i \in 1..Len(count) |-> _numcomp(n, count[i][2], count[i][1])])

----------------------------------------------------------------------------
(* Validation outcomes: a value, or the exception that was raised *)

Ok(x) == [st |-> "ok", v |-> <<x>>]
Err(e) == [st |-> e, v |-> <<>>]
IsOk(r) == r.st = "ok"

\* vol.Exclusive(..., group): at most one key of the group is present
Exclusive(d, keys) == Cardinality(DOMAIN d \cap keys) <= 1

----------------------------------------------------------------------------
(* Schemas; extra=vol.PREVENT_EXTRA rejects every key that is not listed *)

STRCOMP_SCHEMA(v) ==
    /\ DOMAIN v \subseteq Range(StrModes)
    /\ Exclusive(v, Range(StrModes))

DATE_SCHEMA(v) == DOMAIN v \subseteq {DATE_BEFORE, DATE_AFTER}

NUMCOMP_SCHEMA(v) ==
    \/ /\ DOMAIN v \subseteq Range(NumEqModes)
       /\ Exclusive(v, Range(NumEqModes))
    \/ /\ DOMAIN v \subseteq Range(NumOrdModes)
       /\ Exclusive(v, {NUM_GREATER_THAN, NUM_GREATER_THAN_EQ})
       /\ Exclusive(v, {NUM_LESS_THAN, NUM_LESS_THAN_EQ})

\* LOCATION_RE.split(v): the pieces of v between the '/' that no backslash
\* precedes
RECURSIVE LocationSplit(_)
LocationSplit(v) ==
    LET seps == {i \in 1..Len(v) : v[i] = "/" /\ (i = 1 \/ v[i - 1] # "\\")}
    IN  IF seps = {} THEN <<v>>
        ELSE LET i == CHOOSE j \in seps : \A k \in seps : j <= k
             IN  <<SubSeq(v, 1, i - 1)>> \o LocationSplit(SubSeq(v, i + 1, Len(v)))

\* x.replace(old, new) for a two-character old and a one-character new
RECURSIVE Replace2(_, _, _)
Replace2(x, old, new) ==
    IF Len(x) < 2 THEN x
    ELSE IF x[1] = old[1] /\ x[2] = old[2]
         THEN <<new>> \o Replace2(SubSeq(x, 3, Len(x)), old, new)
    ELSE <<x[1]>> \o Replace2(Tail(x), old, new)

\* _location: the location string validator
_location(v) ==
    LET pieces == LocationSplit(v)
    IN  [i \in 1..Len(pieces) |->
            Replace2(Replace2(pieces[i], <<"\\", "/">>, "/"), <<"\\", "\\">>, "\\")]

RELATIONSHIPS_SCHEMA(v) ==
    /\ DOMAIN v \subseteq {RELS_WITH_TYPE, RELS_COUNT, RELS_COUNT_UNKNOWNS}
                              \cup Range(RelsModes)
    /\ Exclusive(v, Range(RelsModes))
    /\ RELS_COUNT \in DOMAIN v => NUMCOMP_SCHEMA(v[RELS_COUNT])

\* vol.Optional(RELS_COUNT_UNKNOWNS, default=False)
RelationshipsDefaults(v) ==
    IF RELS_COUNT_UNKNOWNS \in DOMAIN v THEN v
    ELSE v @@ (RELS_COUNT_UNKNOWNS :> FALSE)

LocationSchema(v) ==
    /\ DOMAIN v \subseteq Range(LocationModes)
    /\ Exclusive(v, Range(LocationModes))
    /\ LOCATION_EVERY_NODE \in DOMAIN v => STRCOMP_SCHEMA(v[LOCATION_EVERY_NODE])
    /\ LOCATION_NO_NODE \in DOMAIN v => STRCOMP_SCHEMA(v[LOCATION_NO_NODE])

FieldSchema(v) ==
    /\ DOMAIN v \subseteq {FIELD_NAME, FIELD_VALUE, FIELD_REQUIRED}
    /\ FIELD_NAME \in DOMAIN v
    /\ FIELD_VALUE \in DOMAIN v => STRCOMP_SCHEMA(v[FIELD_VALUE])

\* vol.Optional(FIELD_REQUIRED, default=True)
FieldDefaults(v) ==
    IF FIELD_REQUIRED \in DOMAIN v THEN v
    ELSE v @@ (FIELD_REQUIRED :> TRUE)

TagsSchema(v) ==
    /\ DOMAIN v \subseteq {TAGS_INCLUDE, TAGS_EXCLUDE}
    /\ Exclusive(v, {TAGS_INCLUDE, TAGS_EXCLUDE})

\* CONDITION_SCHEMA with Optional keys in place of the Exclusive group
CONDITION_SCHEMA_NoExclusion(v) ==
    /\ DOMAIN v \subseteq Attributes
    /\ LOCATION \in DOMAIN v => LocationSchema(v[LOCATION])
    /\ FIELD \in DOMAIN v => FieldSchema(v[FIELD])
    /\ CREATED \in DOMAIN v => DATE_SCHEMA(v[CREATED])
    /\ MODIFIED \in DOMAIN v => DATE_SCHEMA(v[MODIFIED])
    /\ TAGS \in DOMAIN v => TagsSchema(v[TAGS])
    /\ UPSTREAM_ITEMS \in DOMAIN v => RELATIONSHIPS_SCHEMA(v[UPSTREAM_ITEMS])
    /\ DOWNSTREAM_ITEMS \in DOMAIN v => RELATIONSHIPS_SCHEMA(v[DOWNSTREAM_ITEMS])

CONDITION_SCHEMA(v) ==
    /\ DOMAIN v \subseteq Attributes
    /\ Exclusive(v, Attributes)
    /\ LOCATION \in DOMAIN v => LocationSchema(v[LOCATION])
    /\ FIELD \in DOMAIN v => FieldSchema(v[FIELD])
    /\ CREATED \in DOMAIN v => DATE_SCHEMA(v[CREATED])
    /\ MODIFIED \in DOMAIN v => DATE_SCHEMA(v[MODIFIED])
    /\ TAGS \in DOMAIN v => TagsSchema(v[TAGS])
    /\ UPSTREAM_ITEMS \in DOMAIN v => RELATIONSHIPS_SCHEMA(v[UPSTREAM_ITEMS])
    /\ DOWNSTREAM_ITEMS \in DOMAIN v => RELATIONSHIPS_SCHEMA(v[DOWNSTREAM_ITEMS])

\* the location dict the schema returns: the paths split by _location
LocationValidated(v) ==
    [k \in DOMAIN v |->
        IF k \in {LOCATION_IS_UNDER, LOCATION_IS_NOT_UNDER}
        THEN _location(v[k]) ELSE v[k]]

\* the dict CONDITION_SCHEMA returns: the input with the validators applied
\* and the defaults filled in
ConditionDefaults(v) ==
    [k \in DOMAIN v |->
        IF k = FIELD THEN FieldDefaults(v[k])
        ELSE IF k = LOCATION THEN LocationValidated(v[k])
        ELSE IF k \in {UPSTREAM_ITEMS, DOWNSTREAM_ITEMS}
             THEN RelationshipsDefaults(v[k])
        ELSE v[k]]

----------------------------------------------------------------------------
(* Condition.__init__ *)

\* the location block of Condition.__init__
LocationNodeInit(logic, nf) ==
    [err |-> IF IsNone(nf[1]) \/ IsNone(nf[2]) THEN InvalidCondition ELSE "",
     location_logic |-> logic, location_path |-> None,
     location_node_logic |-> nf[1], location_node_value |-> nf[2]]

\* the location block once the first location key is known
LocationLogicInit(logic, value) ==
    IF ~IsNone(logic) /\ Val(logic) \in {LOCATION_IS_UNDER, LOCATION_IS_NOT_UNDER}
    THEN [err |-> "", location_logic |-> logic, location_path |-> value,
          location_node_logic |-> None, location_node_value |-> None]
    ELSE IF IsNone(value)
    \* dict_get_first(None, [...]) evaluates "key in None"
    THEN [err |-> TypeError, location_logic |-> logic, location_path |-> None,
          location_node_logic |-> None, location_node_value |-> None]
    ELSE LocationNodeInit(logic, DictGetFirst(Val(value), StrModes))

LocationFirst(gf) == LocationLogicInit(gf[1], gf[2])

LocationInit(lc) ==
    IF IsNone(lc)
    THEN [err |-> "", location_logic |-> None, location_path |-> None,
          location_node_logic |-> None, location_node_value |-> None]
    ELSE LocationFirst(DictGetFirst(Val(lc), LocationModes))

\* (field_logic, field_value) of the field block
FieldComparator(fv) ==
    IF IsNone(fv) THEN <<None, None>> ELSE DictGetFirst(Val(fv), StrModes)

\* the field block without the check of an optional field with no value
FieldAttributes_NoValueCheck(name, gf, required) ==
    [err |-> IF IsNone(name) THEN InvalidCondition ELSE "",
     field_name |-> name, field_logic |-> gf[1], field_value |-> gf[2],
     field_required |-> Some(required)]

\* the attributes and the checks of the field block
FieldAttributes(name, gf, required) ==
    [err |-> IF IsNone(name) THEN InvalidCondition
             ELSE IF ~required /\ IsNone(gf[2]) THEN InvalidCondition
             ELSE "",
     field_name |-> name, field_logic |-> gf[1], field_value |-> gf[2],
     field_required |-> Some(required)]

\* the field block of Condition.__init__
FieldInit(fc) ==
    IF IsNone(fc)
    THEN [err |-> "", field_name |-> None, field_logic |-> None,
          field_value |-> None, field_required |-> None]
    ELSE FieldAttributes(Get(Val(fc), FIELD_NAME),
                         FieldComparator(Get(Val(fc), FIELD_VALUE)),
                         GetDefault(Val(fc), FIELD_REQUIRED, TRUE))

DateAttributes(before, after) ==
    [err |-> IF IsNone(before) /\ IsNone(after) THEN InvalidCondition ELSE "",
     before |-> before, after |-> after]

\* the created and the modified block of Condition.__init__
DateInit(dc) ==
    IF IsNone(dc) THEN [err |-> "", before |-> None, after |-> None]
    ELSE DateAttributes(Get(Val(dc), DATE_BEFORE), Get(Val(dc), DATE_AFTER))

TagsAttributes(inc, exc) ==
    [err |-> IF IsNone(inc) /\ IsNone(exc) THEN InvalidCondition ELSE "",
     tags_include |-> inc, tags_exclude |-> exc]

\* the tags block of Condition.__init__
TagsInit(tc) ==
    IF IsNone(tc) THEN [err |-> "", tags_include |-> None, tags_exclude |-> None]
    ELSE TagsAttributes(Get(Val(tc), TAGS_INCLUDE), Get(Val(tc), TAGS_EXCLUDE))

\* the list of (logic, value) pairs built from a count comparator dict
CountPairs(count, logics) ==
    [i \in 1..Len(logics) |-> <<logics[i], count[logics[i]]>>]

CountList(count) ==
    IF DOMAIN count \cap Range(NumEqModes) # {}
    THEN CountPairs(count, <<Val(DictGetFirst(count, NumEqModes)[1])>>)
    ELSE CountPairs(count, SelectSeq(NumOrdModes, LAMBDA l : l \in DOMAIN count))

\* the checks without the one that rejects a count next to all match or
\* none match
RelationshipsInitError_CountWithAnyLogic(count, logic, condition) ==
    IF ~IsNone(count) /\ Len(Val(count)) = 0 THEN InvalidCondition
    ELSE IF IsNone(count) /\ IsNone(condition) THEN InvalidCondition
    ELSE IF IsNone(count) /\ logic = Some(RELS_COUNT_MATCH) THEN InvalidCondition
    ELSE ""

\* the constraint on count and match logic of a relationship block
RelationshipsInitError(count, logic, condition) ==
    IF ~IsNone(count) /\ Len(Val(count)) = 0 THEN InvalidCondition
    ELSE IF IsNone(count) /\ IsNone(condition) THEN InvalidCondition
    ELSE IF IsNone(count) /\ logic = Some(RELS_COUNT_MATCH) THEN InvalidCondition
    ELSE IF ~IsNone(count) /\ logic \notin {None, Some(RELS_COUNT_MATCH)}
         THEN InvalidCondition
    ELSE ""

\* the attributes of a relationship block
RelationshipsAttributes(type, count, gf, count_unknowns) ==
    [err |-> RelationshipsInitError(count, gf[1], gf[2]),
     type |-> type, count |-> count, logic |-> gf[1], condition |-> gf[2],
     count_unknowns |-> Some(count_unknowns)]

\* the upstream items and the downstream items block of Condition.__init__
RelationshipsInit(rc) ==
    IF IsNone(rc)
    THEN [err |-> "", type |-> None, count |-> None, logic |-> None,
          condition |-> None, count_unknowns |-> None]
    ELSE RelationshipsAttributes(
             Get(Val(rc), RELS_WITH_TYPE),
             IF RELS_COUNT \in DOMAIN Val(rc)
             THEN Some(CountList(Val(rc)[RELS_COUNT])) ELSE None,
             DictGetFirst(Val(rc), RelsModes),
             GetDefault(Val(rc), RELS_COUNT_UNKNOWNS, FALSE))

\* the first exception raised by the blocks of the constructor, "" when none
FirstError(errs) ==
    IF \A i \in 1..Len(errs) : errs[i] = "" THEN ""
    ELSE errs[CHOOSE i \in 1..Len(errs) :
                  errs[i] # "" /\ \A j \in 1..(i - 1) : errs[j] = ""]

\* the Condition object assembled from the blocks of the constructor
ConditionObject(loc, fld, cre, mod, tag, ups, dns, err) ==
        IF err # "" THEN Err(err)
        ELSE Ok([cls |-> "Condition",
                 location_logic |-> loc.location_logic,
                 location_path |-> loc.location_path,
                 location_node_logic |-> loc.location_node_logic,
                 location_node_value |-> loc.location_node_value,
                 field_name |-> fld.field_name,
                 field_logic |-> fld.field_logic,
                 field_value |-> fld.field_value,
                 field_required |-> fld.field_required,
                 created_before |-> cre.before,
                 created_after |-> cre.after,
                 modified_before |-> mod.before,
                 modified_after |-> mod.after,
                 tags_include |-> tag.tags_include,
                 tags_exclude |-> tag.tags_exclude,
                 upstream_type |-> ups.type,
                 upstream_count |-> ups.count,
                 upstream_logic |-> ups.logic,
                 upstream_condition |-> ups.condition,
                 upstream_count_unknowns |-> ups.count_unknowns,
                 downstream_type |-> dns.type,
                 downstream_count |-> dns.count,
                 downstream_logic |-> dns.logic,
                 downstream_condition |-> dns.condition,
                 downstream_count_unknowns |-> dns.count_unknowns])

\* the blocks of the constructor, in the order of the code
ConditionBlocks(loc, fld, cre, mod, tag, ups, dns) ==
    ConditionObject(loc, fld, cre, mod, tag, ups, dns,
        FirstError(<<loc.err, fld.err, cre.err, mod.err, tag.err, ups.err, dns.err>>))

\* Condition(condition): the object, or the exception the constructor raises
ConditionInit(condition) ==
    ConditionBlocks(LocationInit(Get(condition, LOCATION)),
                    FieldInit(Get(condition, FIELD)),
                    DateInit(Get(condition, CREATED)),
                    DateInit(Get(condition, MODIFIED)),
                    TagsInit(Get(condition, TAGS)),
                    RelationshipsInit(Get(condition, UPSTREAM_ITEMS)),
                    RelationshipsInit(Get(condition, DOWNSTREAM_ITEMS)))

----------------------------------------------------------------------------
(* ConditionGroup.__init__ *)

\* the attributes and the check of ConditionGroup.__init__
ConditionGroupAttributes(type, gf) ==
    IF IsNone(type) /\ IsNone(gf[2]) THEN Err(TypeError)
    ELSE IF IsNone(type) /\ Len(Val(gf[2])) = 0 THEN Err(InvalidCondition)
    ELSE Ok([cls |-> "ConditionGroup", type |-> type,
             group_logic |-> gf[1], conditions |-> gf[2]])

\* ConditionGroup(condition); condition holds the members already built by
\* the schema. len(None) is a TypeError.
ConditionGroupInit(condition) ==
    ConditionGroupAttributes(Get(condition, GROUP_TYPE),
                             DictGetFirst(condition, GroupModes))

\* vol.Coerce(cls): a ValueError or TypeError of the constructor becomes
\* voluptuous.Invalid, every other exception propagates
Coerce(r) == IF r.st = TypeError THEN Err(Invalid) ELSE r

----------------------------------------------------------------------------
(* _recursive_conditions and the group schema *)

IsRef(m) == DOMAIN m = {"ref"}

\* the keys and the exclusion group of CONDITION_GROUP_SCHEMA
GroupKeysOk(v) ==
    /\ DOMAIN v \subseteq {GROUP_TYPE, GROUP_ALL, GROUP_ANY}
    /\ Exclusive(v, {GROUP_ALL, GROUP_ANY})

RECURSIVE _recursive_conditions(_)

\* vol.Any(_recursive_conditions, plainstr) on one member of a group
MemberSchema(m) ==
    IF IsRef(m) THEN Ok(m) ELSE _recursive_conditions(m)

\* the member list of a group definition, empty when it has none
RawMembers(v) ==
    IF GROUP_ALL \in DOMAIN v THEN v[GROUP_ALL]
    ELSE IF GROUP_ANY \in DOMAIN v THEN v[GROUP_ANY]
    ELSE <<>>

\* the list schema over the members
MembersSchema(raw) == [i \in 1..Len(raw) |-> MemberSchema(raw[i])]

\* the group built from the validated members; an InvalidCondition raised
\* while a member is built is not caught by the schema
GroupBuilt(v, built) ==
    IF \E i \in 1..Len(built) : built[i].st = InvalidCondition
    THEN Err(InvalidCondition)
    ELSE IF \E i \in 1..Len(built) : ~IsOk(built[i]) THEN Err(Invalid)
    ELSE Coerce(ConditionGroupInit(
             [k \in DOMAIN v |->
                 IF k \in {GROUP_ALL, GROUP_ANY}
                 THEN [i \in 1..Len(built) |-> Val(built[i].v)]
                 ELSE v[k]]))

\* vol.All(CONDITION_GROUP_SCHEMA, vol.Coerce(ConditionGroup))
GroupAlternative(v) ==
    IF ~GroupKeysOk(v) THEN Err(Invalid)
    ELSE GroupBuilt(v, MembersSchema(RawMembers(v)))

\* vol.All(CONDITION_SCHEMA, vol.Coerce(Condition))
ConditionAlternative(v) ==
    IF ~CONDITION_SCHEMA(v) THEN Err(Invalid)
    ELSE Coerce(ConditionInit(ConditionDefaults(v)))

\* the second alternative is tried when the first raised voluptuous.Invalid
AnyAlternative(g, v) ==
    IF g.st # Invalid THEN g ELSE ConditionAlternative(v)

\* vol.Any(group, condition): the first alternative that validates; an
\* exception that is not voluptuous.Invalid is not caught
_recursive_conditions(v) == AnyAlternative(GroupAlternative(v), v)

----------------------------------------------------------------------------
(* FILTER_SCHEMA, JamaFilter.__init__ and JamaFilter.load *)

\* the dict of built conditions, or the exception raised while building
FilterBuilt(built) ==
    IF \E k \in DOMAIN built : built[k].st = InvalidCondition
    THEN Err(InvalidCondition)
    ELSE IF \E k \in DOMAIN built : ~IsOk(built[k]) THEN Err(Invalid)
    ELSE Ok([k \in DOMAIN built |-> Val(built[k].v)])

\* FILTER_SCHEMA: a dict that contains 'main', every value built by
\* _recursive_conditions
\* a schema that rejects a group that lists its own name
FILTER_SCHEMA_RejectsSelfReference(doc) ==
    IF "main" \notin DOMAIN doc THEN Err(Invalid)
    ELSE IF \E k \in DOMAIN doc :
               \E g \in DOMAIN doc[k] \cap {GROUP_ALL, GROUP_ANY} :
                  \E i \in 1..Len(doc[k][g]) : doc[k][g][i] = [ref |-> k]
    THEN Err(Invalid)
    ELSE FilterBuilt([k \in DOMAIN doc |-> _recursive_conditions(doc[k])])

FILTER_SCHEMA(doc) ==
    IF "main" \notin DOMAIN doc THEN Err(Invalid)
    ELSE FilterBuilt([k \in DOMAIN doc |-> _recursive_conditions(doc[k])])

\* a filter that leaves main in the registry
JamaFilterInit_KeepsMain(conds) ==
    [main_condition |-> conds["main"], named_conditions |-> conds]

\* JamaFilter(conditions): main is popped, the rest is the registry
JamaFilterInit(conds) ==
    [main_condition |-> conds["main"],
     named_conditions |-> [k \in DOMAIN conds \ {"main"} |-> conds[k]]]

\* cls(conditions) on the validated document
JamaFilterCls(validated) ==
    IF IsOk(validated) THEN Ok(JamaFilterInit(Val(validated.v)))
    ELSE validated

\* JamaFilter.load on a decoded document
JamaFilterLoad(doc) == JamaFilterCls(FILTER_SCHEMA(doc))

----------------------------------------------------------------------------
(* Evaluation *)

IsBool(out) == out \in {"T", "F"}

\* the first outcome of a list that is not a boolean: the exception that a
\* loop over the list propagates
FirstRaised(outs) ==
    LET bad == {i \in 1..Len(outs) : ~IsBool(outs[i])}
    IN  outs[CHOOSE j \in bad : \A k \in bad : j <= k]

\* item['location'] + [item['title']]
ItemPath(item) == Append(item.location, item.title)

\* all(item_path[i] == node for i, node in enumerate(path)), after the
\* length test
PathAgrees(item_path, path) ==
    \A i \in 1..Len(path) : item_path[i] = path[i]

\* the location is under branch of Condition.__call__
LocationIsUnder(item_path, path) ==
    IF Len(item_path) < Len(path) THEN "F"
    ELSE Bool(PathAgrees(item_path, path))

\* is not under as the negation of the element-wise test alone
LocationIsNotUnder_ShortIsUnder(item_path, path) ==
    IF Len(item_path) < Len(path) THEN "F"
    ELSE Bool(~PathAgrees(item_path, path))

\* the location is not under branch of Condition.__call__
LocationIsNotUnder(item_path, path) ==
    IF Len(item_path) < Len(path) THEN "T"
    ELSE Bool(~PathAgrees(item_path, path))

\* an index in which the first item with an id is kept
ItemMap_FirstWins(its) ==
    [id \in {its[i].project_id : i \in 1..Len(its)} |->
        LET same == {i \in 1..Len(its) : its[i].project_id = id}
        IN  its[CHOOSE j \in same : \A k \in same : j <= k]]

\* {item['project_id']: item for item in items}: a later item replaces an
\* earlier one with the same id
ItemMap(its) ==
    [id \in {its[i].project_id : i \in 1..Len(its)} |->
        LET same == {i \in 1..Len(its) : its[i].project_id = id}
        IN  its[CHOOSE j \in same : \A k \in same : k <= j]]

RECURSIVE Call(_, _, _, _, _)

\* _relcomp with none match computed as "not all match"
_relcomp_NoneIsNotAll(related_items, condition, logic, item_map, named_conditions, depth) ==
    LET outs == [i \in 1..Len(related_items) |->
                    Call(condition, related_items[i], item_map, named_conditions, depth)]
    IN  IF logic = RELS_ALL_MATCH THEN AllOf(outs)
        ELSE IF logic = RELS_NONE_MATCH THEN Not(AllOf(outs))
        ELSE InvalidCondition

\* Condition._relcomp
\* _relcomp that also evaluates the condition on the first upstream item of
\* each related item
_relcomp_FollowsUpstream(related_items, condition, logic, item_map, named_conditions, depth) ==
    LET beyond == [i \in 1..Len(related_items) |->
                      IF /\ related_items[i].upstream # <<>>
                         /\ related_items[i].upstream[1].project_id \in DOMAIN item_map
                      THEN item_map[related_items[i].upstream[1].project_id]
                      ELSE related_items[i]]
        outs == [i \in 1..(2 * Len(related_items)) |->
                    Call(condition,
                         IF i <= Len(related_items) THEN related_items[i]
                         ELSE beyond[i - Len(related_items)],
                         item_map, named_conditions, depth)]
    IN  IF logic = RELS_ALL_MATCH THEN AllOf(outs)
        ELSE IF logic = RELS_NONE_MATCH
             THEN AllOf([i \in 1..Len(outs) |-> Not(outs[i])])
        ELSE InvalidCondition

\* Condition._relcomp
_relcomp(related_items, condition, logic, item_map, named_conditions, depth) ==
    LET outs == [i \in 1..Len(related_items) |->
                    Call(condition, related_items[i], item_map, named_conditions, depth)]
    IN  IF logic = RELS_ALL_MATCH THEN AllOf(outs)
        ELSE IF logic = RELS_NONE_MATCH
             THEN AllOf([i \in 1..Len(outs) |-> Not(outs[i])])
        ELSE InvalidCondition

\* a collection loop that skips no relationship
TypedRelationships_IgnoresTypes(relationships, types) == relationships

\* the relationships the loop of _evaluate_relationships does not skip
TypedRelationships(relationships, types) ==
    SelectSeq(relationships,
              LAMBDA r : IsNone(types) \/ r.type \in Range(Val(types)))

\* known_items of _evaluate_relationships
KnownItems(relationships, types, item_map) ==
    LET resolved == SelectSeq(TypedRelationships(relationships, types),
                              LAMBDA r : r.project_id \in DOMAIN item_map)
    IN  [i \in 1..Len(resolved) |-> item_map[resolved[i].project_id]]

\* num_unknowns of _evaluate_relationships
NumUnknowns(relationships, types, item_map) ==
    Len(SelectSeq(TypedRelationships(relationships, types),
                  LAMBDA r : r.project_id \notin DOMAIN item_map))

\* the unknown-neighbor veto limited to all match
InvalidUnknowns_AllMatchOnly(logic, count_unknowns, num_unknowns) ==
    ~count_unknowns /\ num_unknowns > 0 /\ logic = RELS_ALL_MATCH

\* the "invalid unknowns" test of _evaluate_relationships
InvalidUnknowns(logic, count_unknowns, num_unknowns) ==
    ~count_unknowns /\ num_unknowns > 0
        /\ logic \in {RELS_ALL_MATCH, RELS_NONE_MATCH}

\* count match that leaves the unknown neighbors out
CountMatchItems_KnownOnly(outs, num_unknowns) ==
    Cardinality({i \in 1..Len(outs) : outs[i] = "T"})

\* num_items of the count match branch
CountMatchItems(outs, num_unknowns) ==
    Cardinality({i \in 1..Len(outs) : outs[i] = "T"}) + num_unknowns

\* the count match branch once the nested condition has been evaluated on
\* every known item
CountMatch(outs, num_unknowns, count) ==
    IF \E i \in 1..Len(outs) : ~IsBool(outs[i]) THEN FirstRaised(outs)
    ELSE IF IsNone(count) THEN TypeError
    ELSE NumCompAll(CountMatchItems(outs, num_unknowns), Val(count))

\* num_related_items of the counting branch
NumRelatedItems(num_known, num_unknowns, count_unknowns) ==
    num_known + (IF count_unknowns THEN num_unknowns ELSE 0)

\* the branches of _evaluate_relationships after the collection loop
EvaluateCollected(known_items, num_unknowns, logic, count_unknowns, count, condition, item_map, named_conditions, depth) ==
    IF IsNone(logic)
    THEN NumCompAll(NumRelatedItems(Len(known_items), num_unknowns, count_unknowns),
                    Val(count))
    ELSE IF InvalidUnknowns(Val(logic), count_unknowns, num_unknowns) THEN "F"
    ELSE IF Val(logic) = RELS_COUNT_MATCH
    THEN CountMatch([i \in 1..Len(known_items) |->
                        Call(condition, known_items[i], item_map,
                             named_conditions, depth)],
                    num_unknowns, count)
    ELSE _relcomp(known_items, condition, Val(logic), item_map,
                  named_conditions, depth)

\* _evaluate_relationships with item_map[id] in place of item_map.get(id)
_evaluate_relationships_LooksUpEveryId(relationships, types, logic, count_unknowns, count, condition, item_map, named_conditions, depth) ==
    IF NumUnknowns(relationships, types, item_map) > 0 THEN "KeyError"
    ELSE EvaluateCollected(KnownItems(relationships, types, item_map), 0,
                           logic, count_unknowns, count, condition, item_map,
                           named_conditions, depth)

\* Condition._evaluate_relationships; logic and count may be None
_evaluate_relationships(relationships, types, logic, count_unknowns, count, condition, item_map, named_conditions, depth) ==
    EvaluateCollected(KnownItems(relationships, types, item_map),
                      NumUnknowns(relationships, types, item_map),
                      logic, count_unknowns, count, condition, item_map,
                      named_conditions, depth)

\* a relationship branch that looks the nested name up only when there is a
\* known item to evaluate it on
RelationshipsCall_ResolvesLazily(relationships, types, logic, count_unknowns, count, name, item_map, named_conditions, depth) ==
    IF /\ ~IsNone(name) /\ Val(name) \notin DOMAIN named_conditions
       /\ Len(KnownItems(relationships, types, item_map)) > 0
       /\ ~InvalidUnknowns(Val(logic), Val(count_unknowns),
                           NumUnknowns(relationships, types, item_map))
    THEN InvalidCondition
    ELSE _evaluate_relationships(
             relationships, types, logic, Val(count_unknowns), count,
             IF IsNone(name) \/ Val(name) \notin DOMAIN named_conditions
             THEN None ELSE named_conditions[Val(name)],
             item_map, named_conditions, depth)

\* the upstream items and the downstream items branch of Condition.__call__:
\* the nested name is looked up before the relationships are evaluated
RelationshipsCall(relationships, types, logic, count_unknowns, count, name, item_map, named_conditions, depth) ==
    IF ~IsNone(name) /\ Val(name) \notin DOMAIN named_conditions
    THEN InvalidCondition
    ELSE _evaluate_relationships(
             relationships, types, logic, Val(count_unknowns), count,
             IF IsNone(name) THEN None ELSE named_conditions[Val(name)],
             item_map, named_conditions, depth)

\* the field branch with a missing field always failing
FieldCall_MissingFails(self, item) ==
    LET value == Get(item.fields, Val(self.field_name))
    IN  IF IsNone(value) THEN "F"
        ELSE IF IsNone(self.field_logic) THEN "T"
        ELSE _strcomp(Val(value), Val(self.field_value), Val(self.field_logic))

\* the field branch of Condition.__call__
FieldCall(self, item) ==
    LET value == Get(item.fields, Val(self.field_name))
    IN  IF IsNone(value) THEN Bool(~Val(self.field_required))
        ELSE IF IsNone(self.field_logic) THEN "T"
        ELSE _strcomp(Val(value), Val(self.field_value), Val(self.field_logic))

\* the created and the modified branch of Condition.__call__: "F", "T", or
\* "" when neither bound is configured and the next branch is tried
DateCall(value, before, after) ==
    IF ~IsNone(after) /\ value <= Val(after) THEN "F"
    ELSE IF ~IsNone(before) /\ value >= Val(before) THEN "F"
    ELSE IF ~IsNone(after) \/ ~IsNone(before) THEN "T"
    ELSE ""

\* Condition.__call__
ConditionCall(self, item, item_map, named_conditions, depth) ==
    LET item_path == ItemPath(item)
        created == DateCall(item.object_created, self.created_before, self.created_after)
        modified == DateCall(item.object_modified, self.modified_before, self.modified_after)
    IN  IF self.location_logic = Some(LOCATION_IS_UNDER)
        THEN LocationIsUnder(item_path, Val(self.location_path))
        ELSE IF self.location_logic = Some(LOCATION_IS_NOT_UNDER)
        THEN LocationIsNotUnder(item_path, Val(self.location_path))
        ELSE IF self.location_logic = Some(LOCATION_EVERY_NODE)
        THEN AllOf([i \in 1..Len(item_path) |->
                       _strcomp(item_path[i], Val(self.location_node_value),
                               Val(self.location_node_logic))])
        ELSE IF self.location_logic = Some(LOCATION_NO_NODE)
        THEN AllOf([i \in 1..Len(item_path) |->
                       Not(_strcomp(item_path[i], Val(self.location_node_value),
                                   Val(self.location_node_logic)))])
        ELSE IF ~IsNone(self.field_name)
        THEN FieldCall(self, item)
        ELSE IF created # "" THEN created
        ELSE IF modified # "" THEN modified
        ELSE IF ~IsNone(self.tags_include)
        THEN Bool(Val(self.tags_include) \in item.tags)
        ELSE IF ~IsNone(self.tags_exclude)
        THEN Bool(Val(self.tags_exclude) \notin item.tags)
        ELSE IF ~IsNone(self.upstream_logic) \/ ~IsNone(self.upstream_count)
        THEN RelationshipsCall(item.upstream, self.upstream_type, self.upstream_logic,
                               self.upstream_count_unknowns, self.upstream_count,
                               self.upstream_condition, item_map, named_conditions, depth)
        ELSE IF ~IsNone(self.downstream_logic) \/ ~IsNone(self.downstream_count)
        THEN RelationshipsCall(item.downstream, self.downstream_type, self.downstream_logic,
                               self.downstream_count_unknowns, self.downstream_count,
                               self.downstream_condition, item_map, named_conditions, depth)
        ELSE InvalidCondition

\* a group that resolves its member names before it tests the type
ConditionGroupCall_ResolvesFirst(self, item, item_map, named_conditions, depth) ==
    IF /\ ~IsNone(self.conditions)
       /\ \E i \in 1..Len(Val(self.conditions)) :
              /\ IsRef(Val(self.conditions)[i])
              /\ Val(self.conditions)[i].ref \notin DOMAIN named_conditions
    THEN InvalidCondition
    ELSE IF ~IsNone(self.type) /\ item.object_type \notin Range(Val(self.type)) THEN "F"
    ELSE IF IsNone(self.conditions) THEN "T"
    ELSE LET outs == [i \in 1..Len(Val(self.conditions)) |->
                         Call(IF IsRef(Val(self.conditions)[i])
                              THEN named_conditions[Val(self.conditions)[i].ref]
                              ELSE Val(self.conditions)[i],
                              item, item_map, named_conditions, depth)]
         IN  IF self.group_logic = Some(GROUP_ALL) THEN AllOf(outs)
             ELSE IF self.group_logic = Some(GROUP_ANY) THEN AnyOf(outs)
             ELSE "T"

\* ConditionGroup.__call__
ConditionGroupCall(self, item, item_map, named_conditions, depth) ==
    IF ~IsNone(self.type) /\ item.object_type \notin Range(Val(self.type)) THEN "F"
    ELSE IF IsNone(self.conditions) THEN "T"
    ELSE LET members == Val(self.conditions)
         IN  IF \E i \in 1..Len(members) :
                    IsRef(members[i]) /\ members[i].ref \notin DOMAIN named_conditions
             THEN InvalidCondition
             ELSE LET outs == [i \in 1..Len(members) |->
                                  Call(IF IsRef(members[i])
                                       THEN named_conditions[members[i].ref]
                                       ELSE members[i],
                                       item, item_map, named_conditions, depth)]
                  IN  IF self.group_logic = Some(GROUP_ALL) THEN AllOf(outs)
                      ELSE IF self.group_logic = Some(GROUP_ANY) THEN AnyOf(outs)
                      ELSE "T"

\* condition(item, item_map, named_conditions) on a Condition or a
\* ConditionGroup; depth is the number of nested calls still allowed
Call(condition, item, item_map, named_conditions, depth) ==
    IF depth = 0 THEN Diverges
    ELSE IF condition.cls = "ConditionGroup"
    THEN ConditionGroupCall(condition, item, item_map, named_conditions, depth - 1)
    ELSE ConditionCall(condition, item, item_map, named_conditions, depth - 1)

\* JamaFilter.__call__ returning the indexed item of every matching id
JamaFilterCall_FromIndex(self, its) ==
    LET item_map == ItemMap(its)
        outs == [i \in 1..Len(its) |->
                    Call(self.main_condition, its[i], item_map,
                         self.named_conditions, MaxDepth)]
        kept == SelectSeq([i \in 1..Len(its) |-> i], LAMBDA i : outs[i] = "T")
    IN  IF \E i \in 1..Len(outs) : ~IsBool(outs[i])
        THEN [st |-> FirstRaised(outs), value |-> <<>>]
        ELSE [st |-> "returned",
              value |-> [k \in 1..Len(kept) |-> item_map[its[kept[k]].project_id]]]

\* JamaFilter.__call__ that returns one item for each id
JamaFilterCall_DropsRepeatedIds(self, its) ==
    LET item_map == ItemMap(its)
        outs == [i \in 1..Len(its) |->
                    Call(self.main_condition, its[i], item_map,
                         self.named_conditions, MaxDepth)]
        kept == SelectSeq([i \in 1..Len(its) |-> i],
                          LAMBDA i : /\ outs[i] = "T"
                                     /\ \A j \in 1..(i - 1) :
                                            its[j].project_id # its[i].project_id)
    IN  IF \E i \in 1..Len(outs) : ~IsBool(outs[i])
        THEN [st |-> FirstRaised(outs), value |-> <<>>]
        ELSE [st |-> "returned", value |-> [k \in 1..Len(kept) |-> its[kept[k]]]]

\* JamaFilter.__call__ returning the items matched before the evaluation
\* that fails
JamaFilterCall_PartialOnError(self, its) ==
    LET item_map == ItemMap(its)
        outs == [i \in 1..Len(its) |->
                    Call(self.main_condition, its[i], item_map,
                         self.named_conditions, MaxDepth)]
        kept == SelectSeq([i \in 1..Len(its) |-> i],
                          LAMBDA i : \A j \in 1..i : IsBool(outs[j]) /\ outs[i] = "T")
    IN  [st |-> "returned", value |-> [k \in 1..Len(kept) |-> its[kept[k]]]]

\* JamaFilter.__call__: the matching items in input order, or the exception
\* raised by the first evaluation that fails
JamaFilterCall(self, its) ==
    LET item_map == ItemMap(its)
        outs == [i \in 1..Len(its) |->
                    Call(self.main_condition, its[i], item_map,
                         self.named_conditions, MaxDepth)]
        kept == SelectSeq([i \in 1..Len(its) |-> i], LAMBDA i : outs[i] = "T")
    IN  IF \E i \in 1..Len(outs) : ~IsBool(outs[i])
        THEN [st |-> FirstRaised(outs), value |-> <<>>]
        ELSE [st |-> "returned", value |-> [k \in 1..Len(kept) |-> its[kept[k]]]]

----------------------------------------------------------------------------
(* The program: load a filter from a document, then evaluate it *)

NoCall == [item |-> 0, out |-> ""]
NoResult == [st |-> "none", value |-> <<>>]
NoAuth == [client |-> 0, asked |-> FALSE, out |-> ""]

\* the RestApi subclass before any client exists: _authentication = None
NoComparison == [fn |-> "", logic |-> "", out |-> ""]
NoClients ==
    /\ class_authentication = None
    /\ clients = <<>>
    /\ dialogs = 0
    /\ last_auth = NoAuth

\* the state before JamaFilter.load, for a document and an item collection
Start(doc, its) ==
    /\ conditions = doc
    /\ items = its
    /\ jfilter = None
    /\ pc = "start"
    /\ load_error = ""
    /\ last_call = NoCall
    /\ result = NoResult
    /\ NoClients
    /\ comparison = NoComparison

\* the state after load returned r or raised r.st
Loaded(r) ==
    IF IsOk(r)
    THEN /\ jfilter' = Some(Val(r.v))
         /\ pc' = "loaded"
         /\ load_error' = ""
    ELSE /\ jfilter' = None
         /\ pc' = "load_failed"
         /\ load_error' = r.st

\* JamaFilter.load(conditions)
Load ==
    /\ pc = "start"
    /\ Loaded(JamaFilterLoad(conditions))
    /\ UNCHANGED <<conditions, items, last_call, result, rest_vars, comp_vars>>

\* an evaluation that returns what the previous evaluation returned
CallMain_KeepsLastOutcome(i) ==
    /\ pc = "loaded"
    /\ last_call' = [item |-> i,
                     out |-> IF last_call = NoCall
                             THEN Call(Val(jfilter).main_condition, items[i],
                                       ItemMap(items), Val(jfilter).named_conditions,
                                       MaxDepth)
                             ELSE last_call.out]
    /\ UNCHANGED <<conditions, jfilter, items, pc, load_error, result, rest_vars, comp_vars>>

\* main_condition(items[i], item_map, named_conditions) with the index of
\* the collection
CallMain(i) ==
    /\ pc = "loaded"
    /\ last_call' = [item |-> i,
                     out |-> Call(Val(jfilter).main_condition, items[i],
                                  ItemMap(items), Val(jfilter).named_conditions,
                                  MaxDepth)]
    /\ UNCHANGED <<conditions, jfilter, items, pc, load_error, result, rest_vars, comp_vars>>

\* an apply that filters the caller's list in place
Apply_FiltersInPlace ==
    /\ pc = "loaded"
    /\ result' = JamaFilterCall(Val(jfilter), items)
    /\ items' = result'.value
    /\ UNCHANGED <<conditions, jfilter, pc, load_error, last_call, rest_vars, comp_vars>>

\* JamaFilter.__call__(items)
Apply ==
    /\ pc = "loaded"
    /\ result' = JamaFilterCall(Val(jfilter), items)
    /\ UNCHANGED <<conditions, jfilter, items, pc, load_error, last_call, rest_vars, comp_vars>>

Next ==
    \/ Load
    \/ \E i \in 1..Len(items) : CallMain(i)
    \/ Apply

----------------------------------------------------------------------------
(* Inputs *)

\* strings that go through a string comparator
Open == <<"O", "p", "e", "n">>
OpenLower == <<"o", "p", "e", "n">>
Closed == <<"C", "l", "o", "s", "e", "d">>
Nodes == {<<"A">>, <<"B">>, <<"X">>}

\* sequences over S of length lo..hi
SeqsOf(S, lo, hi) == UNION {[1..n -> S] : n \in lo..hi}

\* an item of the report, DATA_SCHEMA
Item(id, type, location, title, fields, tags, up, down) ==
    [project_id |-> id, object_type |-> type, location |-> location,
     title |-> title, fields |-> fields, tags |-> tags,
     object_created |-> 5, object_modified |-> 5,
     upstream |-> up, downstream |-> down]

Relationship(id, type) == [project_id |-> id, type |-> type]

\* a dict with the optional entry k: absent, or one of the values
Optional(k, values) == {EmptyDict} \cup {k :> v : v \in values}

MainOnly(definitions) == {"main" :> d : d \in definitions}

----------------------------------------------------------------------------
(* Specification of single conditions: location paths and fields *)

\* the nodes joined by '/', as a location string of the filter file
RECURSIVE JoinPath(_)
JoinPath(nodes) ==
    IF Len(nodes) = 1 THEN nodes[1]
    ELSE nodes[1] \o <<"/">> \o JoinPath(Tail(nodes))

\* "A\/B": one node that contains an escaped separator
EscapedLocation == <<"A", "\\", "/", "B">>

LocationStrings ==
    {JoinPath(p) : p \in SeqsOf({<<"A">>, <<"B">>}, 1, MaxPathLen + 1)}
        \cup {EscapedLocation}

LocationDefs ==
    {LOCATION :> (logic :> path) :
        logic \in {LOCATION_IS_UNDER, LOCATION_IS_NOT_UNDER},
        path \in LocationStrings}

StrComparators ==
    {STR_IS :> Open, STR_IS_NOT :> Open, STR_CONTAINS :> <<"p", "e">>,
     STR_DOES_NOT_CONTAIN :> <<"p", "e">>, STR_MATCHES :> <<"o", "P">>,
     STR_IN :> <<Open, Closed>>, STR_NOT_IN :> <<Open, Closed>>, EmptyDict}

FieldDefs ==
    {FIELD :> ((FIELD_NAME :> "Status") @@ value @@ required) :
        value \in Optional(FIELD_VALUE, StrComparators),
        required \in Optional(FIELD_REQUIRED, BOOLEAN)}

FieldValues ==
    {EmptyDict, "Status" :> Open, "Status" :> OpenLower, "Status" :> Closed,
     "Other" :> Open}

CondItems ==
    {Item("i1", "Requirement", location, title, fields, {}, <<>>, <<>>) :
        location \in SeqsOf(Nodes, 0, MaxPathLen),
        title \in {<<"A">>, <<"B">>, <<"A", "/", "B">>},
        fields \in FieldValues}

InitCond ==
    \E doc \in MainOnly(LocationDefs \cup FieldDefs), item \in CondItems :
        Start(doc, <<item>>)

SpecCond == InitCond /\ [][Next]_vars

----------------------------------------------------------------------------
(* Specification of relationship quantification *)

\* the neighbors: Known1 satisfies the nested condition Good, Known2 does not
Known1 == Item("k1", "Requirement", <<>>, <<"A">>, EmptyDict, {"good"}, <<>>, <<>>)
Known2 == Item("k2", "Requirement", <<>>, <<"B">>, EmptyDict, {}, <<>>, <<>>)

\* the named conditions: Good is a tag test, Bad is a group whose member is
\* a name that the registry lacks, so that evaluating Bad raises
Registry ==
    ("Good" :> (TAGS :> (TAGS_INCLUDE :> "good")))
        @@ ("Bad" :> (GROUP_ALL :> <<[ref |-> "Absent"]>>))

\* "Missing" is a nested name that the registry lacks
NestedNames == {"Good", "Bad", "Missing"}

RelPool ==
    {Relationship("k1", "t1"), Relationship("k2", "t1"),
     Relationship("u1", "t1"), Relationship("u2", "t2")}

QuantifiedDefs ==
    {dir :> (type @@ count @@ (logic :> name) @@ (RELS_COUNT_UNKNOWNS :> cu)) :
        dir \in {UPSTREAM_ITEMS, DOWNSTREAM_ITEMS},
        type \in Optional(RELS_WITH_TYPE, {<<"t1">>}),
        count \in Optional(RELS_COUNT,
                           {NUM_IS :> 3, NUM_GREATER_THAN_EQ :> 2}),
        logic \in Range(RelsModes),
        name \in NestedNames,
        cu \in BOOLEAN}

InitRel ==
    \E def \in QuantifiedDefs, rels \in SeqsOf(RelPool, 0, MaxRels) :
        Start(("main" :> def) @@ Registry,
              <<Item("i0", "Test", <<>>, <<"X">>, EmptyDict, {}, rels, <<>>),
                Known1, Known2>>)

SpecRel == InitRel /\ [][Next]_vars

----------------------------------------------------------------------------
(* Specification of relationship counting *)

CountComparators ==
    {(NUM_GREATER_THAN :> 1) @@ (NUM_LESS_THAN :> 5),
     (NUM_GREATER_THAN_EQ :> 2) @@ (NUM_LESS_THAN_EQ :> 4),
     NUM_IS :> 3, NUM_IS_NOT :> 2, NUM_IN :> <<1, 5>>, NUM_NOT_IN :> <<0, 3>>}

CountingDefs ==
    {dir :> (type @@ (RELS_COUNT :> count) @@ cu) :
        dir \in {UPSTREAM_ITEMS, DOWNSTREAM_ITEMS},
        type \in Optional(RELS_WITH_TYPE, {<<"t1">>}),
        count \in CountComparators,
        cu \in Optional(RELS_COUNT_UNKNOWNS, BOOLEAN)}

CountPool ==
    {Relationship("k1", "t1"), Relationship("u1", "t1"), Relationship("u2", "t2")}

InitCount ==
    \E def \in CountingDefs, rels \in SeqsOf(CountPool, 0, MaxCountRels) :
        Start("main" :> def,
              <<Item("i0", "Test", <<>>, <<"X">>, EmptyDict, {}, <<>>, rels),
                Known1>>)

SpecCount == InitCount /\ [][Next]_vars

----------------------------------------------------------------------------
(* Specification of filter construction *)

\* one valid definition of every predicate kind
KindDefs ==
    (LOCATION :> (LOCATION_IS_UNDER :> <<"A">>))
        @@ (FIELD :> (FIELD_NAME :> "Status"))
        @@ (CREATED :> (DATE_AFTER :> 3))
        @@ (MODIFIED :> (DATE_BEFORE :> 9))
        @@ (TAGS :> (TAGS_INCLUDE :> "good"))
        @@ (UPSTREAM_ITEMS :> (RELS_COUNT :> (NUM_IS :> 1)))
        @@ (DOWNSTREAM_ITEMS :> (RELS_COUNT :> (NUM_GREATER_THAN :> 0)))

\* the definitions that populate any set of predicate kinds, none included
MultiKindDefs == {[k \in kinds |-> KindDefs[k]] : kinds \in SUBSET Attributes}

\* relationship definitions with every combination of count and match logic
RelationshipDefs ==
    {dir :> (type @@ count @@ logic @@ cu) :
        dir \in {UPSTREAM_ITEMS, DOWNSTREAM_ITEMS},
        type \in Optional(RELS_WITH_TYPE, {<<"t1">>}),
        count \in Optional(RELS_COUNT,
                           {EmptyDict, NUM_IS :> 1, NUM_IN :> <<1, 2>>,
                            (NUM_GREATER_THAN :> 0) @@ (NUM_LESS_THAN_EQ :> 3)}),
        logic \in {EmptyDict} \cup {l :> "Good" : l \in Range(RelsModes)},
        cu \in Optional(RELS_COUNT_UNKNOWNS, {TRUE})}

ConstructItem ==
    Item("i0", "Requirement", <<<<"A">>>>, <<"B">>, "Status" :> Open, {"good"},
         <<Relationship("k1", "t1")>>, <<Relationship("u1", "t1")>>)

InitConstruct ==
    \E def \in MultiKindDefs \cup RelationshipDefs,
       its \in {<<>>, <<ConstructItem>>, <<ConstructItem, Known1>>} :
        Start(("main" :> def) @@ Registry, its)

SpecConstruct == InitConstruct /\ [][Next]_vars

----------------------------------------------------------------------------
(* Specification of condition groups *)

GroupTypes == {<<"Requirement">>, <<"Requirement", "Test">>}

GroupMembers ==
    {<<>>, <<[ref |-> "Good"]>>, <<TAGS :> (TAGS_EXCLUDE :> "good")>>,
     <<[ref |-> "Good"], FIELD :> (FIELD_NAME :> "Status")>>,
     <<FIELD :> (FIELD_NAME :> "Status"), [ref |-> "Missing"]>>}

GroupDefs ==
    {type @@ members :
        type \in Optional(GROUP_TYPE, GroupTypes),
        members \in {EmptyDict} \cup
                    {logic :> m : logic \in Range(GroupModes), m \in GroupMembers}}

GroupItems ==
    {Item("i1", type, <<>>, <<"A">>, fields, tags, <<>>, <<>>) :
        type \in {"Requirement", "Test", "Folder"},
        fields \in {EmptyDict, "Status" :> Open},
        tags \in {{}, {"good"}}}

InitGroup ==
    \E def \in GroupDefs, its \in SeqsOf(GroupItems, 1, 1) :
        Start(("main" :> def) @@ Registry, its)

SpecGroup == InitGroup /\ [][Next]_vars

----------------------------------------------------------------------------
(* Specification of JamaFilter.__call__ on item collections *)

\* items that share ids and refer to each other and to absent items
ApplyPool ==
    {Item("a", "Requirement", <<<<"A">>>>, <<"B">>, "Status" :> Open, {"good"},
          <<>>, <<Relationship("b", "t1")>>),
     Item("a", "Test", <<<<"X">>>>, <<"B">>, EmptyDict, {},
          <<Relationship("b", "t1")>>, <<>>),
     Item("b", "Requirement", <<>>, <<"A">>, "Status" :> Closed, {"good"},
          <<Relationship("a", "t1"), Relationship("u1", "t1")>>, <<>>),
     Item("c", "Test", <<<<"A">>>>, <<"A">>, EmptyDict, {},
          <<Relationship("a", "t2")>>, <<Relationship("a", "t1")>>)}

ApplyDefs ==
    {TAGS :> (TAGS_INCLUDE :> "good"),
     FIELD :> ((FIELD_NAME :> "Status") @@ (FIELD_VALUE :> (STR_IS :> Open))
                   @@ (FIELD_REQUIRED :> FALSE)),
     LOCATION :> (LOCATION_IS_UNDER :> <<"A">>),
     (GROUP_TYPE :> <<"Requirement">>)
         @@ (GROUP_ANY :> <<[ref |-> "Good"], FIELD :> (FIELD_NAME :> "Status")>>),
     GROUP_ALL :> <<TAGS :> (TAGS_EXCLUDE :> "good"), [ref |-> "Bad"]>>,
     UPSTREAM_ITEMS :> ((RELS_COUNT_MATCH :> "Good")
                            @@ (RELS_COUNT :> (NUM_GREATER_THAN_EQ :> 1))),
     UPSTREAM_ITEMS :> (RELS_ALL_MATCH :> "Good"),
     DOWNSTREAM_ITEMS :> ((RELS_NONE_MATCH :> "Good") @@ (RELS_COUNT_UNKNOWNS :> TRUE)),
     DOWNSTREAM_ITEMS :> (RELS_COUNT :> (NUM_IS :> 1))}

InitApply ==
    \E def \in ApplyDefs, its \in SeqsOf(ApplyPool, 0, MaxItems) :
        Start(("main" :> def) @@ Registry, its)

SpecApply == InitApply /\ [][Next]_vars

----------------------------------------------------------------------------
(* Properties of single conditions *)

MainDef == conditions["main"]
MainCondition == Val(jfilter).main_condition
Called == pc = "loaded" /\ last_call.item # 0
CalledItem == items[last_call.item]

\* path is a prefix of full: full has at least as many segments and the
\* segments of path are the first segments of full
IsPrefixOf(path, full) ==
    /\ Len(full) >= Len(path)
    /\ SubSeq(full, 1, Len(path)) = path

\* C8: location is_under(path) is true iff the reference path is a prefix of
\* the item's full path location + [title], and is_not_under(path) is its
\* exact complement, also for an item whose full path is shorter than path
C8_IsNotUnderIsComplement ==
    (Called /\ LOCATION \in DOMAIN MainDef) =>
        LET path == Val(MainCondition.location_path)
            full == CalledItem.location \o <<CalledItem.title>>
        IN  /\ LOCATION_IS_UNDER \in DOMAIN MainDef[LOCATION]
                => last_call.out = Bool(IsPrefixOf(path, full))
            /\ LOCATION_IS_NOT_UNDER \in DOMAIN MainDef[LOCATION]
                => last_call.out = Bool(~IsPrefixOf(path, full))

\* an is_not_under condition was evaluated on an item whose full path is
\* shorter than the reference path, and held
C8_Witness ==
    /\ Called
    /\ LOCATION \in DOMAIN MainDef
    /\ LOCATION_IS_NOT_UNDER \in DOMAIN MainDef[LOCATION]
    /\ Len(CalledItem.location) + 1 < Len(Val(MainCondition.location_path))
    /\ last_call.out = "T"

\* the three cases of a field condition, on the definition of the filter
FieldCases ==
    (Called /\ FIELD \in DOMAIN MainDef) =>
        LET fd == MainDef[FIELD]
            required == IF FIELD_REQUIRED \in DOMAIN fd THEN fd[FIELD_REQUIRED] ELSE TRUE
            comparator == IF FIELD_VALUE \in DOMAIN fd THEN fd[FIELD_VALUE] ELSE EmptyDict
            fields == CalledItem.fields
        IN  IF fd[FIELD_NAME] \notin DOMAIN fields
            THEN last_call.out = Bool(~required)
            ELSE IF DOMAIN comparator = {} THEN last_call.out = "T"
            ELSE \E logic \in DOMAIN comparator :
                    last_call.out =
                        _strcomp(fields[fd[FIELD_NAME]], comparator[logic], logic)

\* the three cases of field(name=Status, value={is: Open}, required=False)
OptionalStatusIsOpen ==
    (/\ Called
     /\ FIELD \in DOMAIN MainDef
     /\ MainDef[FIELD] = (FIELD_NAME :> "Status") @@ (FIELD_VALUE :> (STR_IS :> Open))
                             @@ (FIELD_REQUIRED :> FALSE)) =>
        last_call.out =
            IF "Status" \notin DOMAIN CalledItem.fields THEN "T"
            ELSE IF CalledItem.fields["Status"] = Open THEN "T"
            ELSE "F"

\* C9: a field condition is (not required) when the item has no value for
\* the field, true when the field is present and no comparator is
\* configured, and the comparator's result otherwise; so
\* field(name=Status, value={is: Open}, required=False) is true when Status
\* is missing or Open and false when it has another value
C9_FieldCondition == FieldCases /\ OptionalStatusIsOpen

\* an optional field condition with a comparator was evaluated on an item
\* that lacks the field, and held
C9_Witness ==
    /\ Called
    /\ FIELD \in DOMAIN MainDef
    /\ FIELD_VALUE \in DOMAIN MainDef[FIELD]
    /\ FIELD_REQUIRED \in DOMAIN MainDef[FIELD]
    /\ ~MainDef[FIELD][FIELD_REQUIRED]
    /\ "Status" \notin DOMAIN CalledItem.fields
    /\ last_call.out = "T"

----------------------------------------------------------------------------
(* Properties of relationship predicates *)

\* the main definition is a relationship predicate
IsRelDef == DOMAIN MainDef \cap {UPSTREAM_ITEMS, DOWNSTREAM_ITEMS} # {}
RelDir == IF UPSTREAM_ITEMS \in DOMAIN MainDef THEN UPSTREAM_ITEMS ELSE DOWNSTREAM_ITEMS
RelDef == MainDef[RelDir]
RelLogics == DOMAIN RelDef \cap Range(RelsModes)
HasLogic(logic) == logic \in DOMAIN RelDef
NestedName == RelDef[CHOOSE l \in RelLogics : TRUE]
CountsUnknowns == RELS_COUNT_UNKNOWNS \in DOMAIN RelDef /\ RelDef[RELS_COUNT_UNKNOWNS]

\* the relationships of the evaluated item in the direction of the predicate
CalledRels ==
    IF RelDir = UPSTREAM_ITEMS THEN CalledItem.upstream ELSE CalledItem.downstream

AllowedType(r) ==
    RELS_WITH_TYPE \notin DOMAIN RelDef \/ r.type \in Range(RelDef[RELS_WITH_TYPE])

ItemIds == {items[i].project_id : i \in 1..Len(items)}
ItemWithId(id) == items[CHOOSE i \in 1..Len(items) : items[i].project_id = id]

\* positions of the relationships of an allowed type whose target is in,
\* respectively not in, the collection
Resolved == {i \in 1..Len(CalledRels) :
                AllowedType(CalledRels[i]) /\ CalledRels[i].project_id \in ItemIds}
Unresolved == {i \in 1..Len(CalledRels) :
                  AllowedType(CalledRels[i]) /\ CalledRels[i].project_id \notin ItemIds}

\* the resolved neighbors on which the nested condition Good is true
GoodNeighbors == {i \in Resolved : "good" \in ItemWithId(CalledRels[i].project_id).tags}

\* n satisfies every comparator of a count definition
SatisfiesCount(n, count) ==
    /\ NUM_IS \in DOMAIN count => n = count[NUM_IS]
    /\ NUM_IS_NOT \in DOMAIN count => n # count[NUM_IS_NOT]
    /\ NUM_IN \in DOMAIN count => \E i \in 1..Len(count[NUM_IN]) : n = count[NUM_IN][i]
    /\ NUM_NOT_IN \in DOMAIN count => \A i \in 1..Len(count[NUM_NOT_IN]) : n # count[NUM_NOT_IN][i]
    /\ NUM_GREATER_THAN \in DOMAIN count => n > count[NUM_GREATER_THAN]
    /\ NUM_GREATER_THAN_EQ \in DOMAIN count => n >= count[NUM_GREATER_THAN_EQ]
    /\ NUM_LESS_THAN \in DOMAIN count => n < count[NUM_LESS_THAN]
    /\ NUM_LESS_THAN_EQ \in DOMAIN count => n <= count[NUM_LESS_THAN_EQ]

\* an all_match or none_match predicate that does not count unknowns was
\* evaluated on an item with an unresolved neighbor of an allowed type
VetoCase ==
    /\ Called
    /\ IsRelDef
    /\ HasLogic(RELS_ALL_MATCH) \/ HasLogic(RELS_NONE_MATCH)
    /\ ~CountsUnknowns
    /\ Unresolved # {}

\* C2 as stated: all_match or none_match with count_unknowns=False is false
\* on every item that has an unresolved neighbor of an allowed type
C2_VetoAlwaysFalse == VetoCase => last_call.out = "F"

\* C2, amended: the same, for a predicate whose nested name is in the
\* registry, however the nested condition evaluates on the known neighbors
\* (also when it would raise); a nested name that the registry lacks raises
\* InvalidCondition instead
C2_VetoFalseWhenNameKnown ==
    VetoCase =>
        IF NestedName \in DOMAIN Val(jfilter).named_conditions
        THEN last_call.out = "F"
        ELSE last_call.out = InvalidCondition

\* a none_match veto on an item whose known neighbor does not satisfy the
\* nested condition, so that the veto alone makes the predicate false
C2_Witness ==
    /\ VetoCase
    /\ HasLogic(RELS_NONE_MATCH)
    /\ NestedName = "Good"
    /\ Resolved # {}
    /\ GoodNeighbors = {}
    /\ last_call.out = "F"

\* C3: in count_match mode the number compared with the count comparators
\* is the number of known neighbors on which the nested condition is true
\* plus the number of unresolved neighbors, whether or not count_unknowns is
\* set
C3_CountMatchAddsUnknowns ==
    (/\ Called /\ IsRelDef /\ HasLogic(RELS_COUNT_MATCH)
     /\ NestedName = "Good" \/ (NestedName = "Bad" /\ Resolved = {})) =>
        last_call.out =
            Bool(SatisfiesCount(Cardinality(GoodNeighbors) + Cardinality(Unresolved),
                                RelDef[RELS_COUNT]))

\* two known matching neighbors and one unknown neighbor satisfy
\* count {is: 3} although count_unknowns is false
C3_Witness ==
    /\ Called /\ IsRelDef /\ HasLogic(RELS_COUNT_MATCH) /\ NestedName = "Good"
    /\ RelDef[RELS_COUNT] = (NUM_IS :> 3)
    /\ ~CountsUnknowns
    /\ Cardinality(GoodNeighbors) = 2
    /\ Cardinality(Unresolved) = 1
    /\ last_call.out = "T"

\* the number a pure count compares: the resolved neighbors, plus the
\* unresolved ones iff count_unknowns is enabled
PureCount ==
    Cardinality(Resolved) + (IF CountsUnknowns THEN Cardinality(Unresolved) ELSE 0)

\* C4: a count without match-logic is true iff n satisfies every configured
\* comparator; with greater_than 1 and less_than 5 exactly for n in {2,3,4}
C4_PureCounting ==
    (Called /\ IsRelDef /\ RelLogics = {}) =>
        /\ last_call.out = Bool(SatisfiesCount(PureCount, RelDef[RELS_COUNT]))
        /\ RelDef[RELS_COUNT] = (NUM_GREATER_THAN :> 1) @@ (NUM_LESS_THAN :> 5)
              => (last_call.out = "T" <=> PureCount \in {2, 3, 4})

\* the range count was evaluated on five counted neighbors, one of them
\* unresolved, and rejected them
C4_Witness ==
    /\ Called /\ IsRelDef /\ RelLogics = {}
    /\ RelDef[RELS_COUNT] = (NUM_GREATER_THAN :> 1) @@ (NUM_LESS_THAN :> 5)
    /\ CountsUnknowns
    /\ Cardinality(Unresolved) = 1
    /\ PureCount = 5
    /\ last_call.out = "F"

----------------------------------------------------------------------------
(* Properties of filter construction *)

LoadDone == pc # "start"
LoadFailed == pc = "load_failed"
PopulatedKinds == DOMAIN MainDef \cap Attributes

\* no item was evaluated and no filter object exists
NothingEvaluated == jfilter = None /\ last_call = NoCall /\ result = NoResult

\* C5: a definition that populates more than one predicate kind fails with a
\* configuration error when the filter is constructed, before any item is
\* evaluated
C5_SeveralKindsFailAtLoad ==
    (LoadDone /\ Cardinality(PopulatedKinds) > 1) =>
        /\ LoadFailed
        /\ load_error \in {Invalid, InvalidCondition}
        /\ NothingEvaluated

\* the load of a definition with both field and tags failed
C5_Witness ==
    /\ LoadFailed
    /\ PopulatedKinds = {FIELD, TAGS}
    /\ items # <<>>

\* C6: a definition that populates none of the seven predicate kinds fails
\* with a configuration error at construction time, not later when an item
\* is evaluated
C6_EmptyDefinitionFailsAtLoad ==
    (LoadDone /\ DOMAIN MainDef = {}) =>
        /\ LoadFailed
        /\ load_error \in {Invalid, InvalidCondition}
        /\ NothingEvaluated

\* the count and match logic of the relationship definition of the filter
CountGiven == RELS_COUNT \in DOMAIN RelDef
CountHasComparator == CountGiven /\ DOMAIN RelDef[RELS_COUNT] # {}

RelationshipAccepted ==
    \/ CountHasComparator /\ RelLogics \subseteq {RELS_COUNT_MATCH}
    \/ ~CountGiven /\ RelLogics \cap {RELS_ALL_MATCH, RELS_NONE_MATCH} # {}

\* C7: a relationship predicate is accepted at construction iff a non-empty
\* count comparator set is given with no match logic or with count match, or
\* no count is given and the match logic is all match or none match; every
\* other combination raises InvalidCondition
C7_RelationshipConstruction ==
    (LoadDone /\ Cardinality(PopulatedKinds) = 1 /\ IsRelDef) =>
        IF RelationshipAccepted
        THEN pc = "loaded"
        ELSE LoadFailed /\ load_error = InvalidCondition /\ NothingEvaluated

\* a count next to all match was rejected with InvalidCondition
C7_Witness ==
    /\ LoadFailed
    /\ IsRelDef
    /\ CountHasComparator
    /\ HasLogic(RELS_ALL_MATCH)
    /\ load_error = InvalidCondition

----------------------------------------------------------------------------
(* Properties of condition groups *)

IsGroupDef == DOMAIN MainDef \subseteq {GROUP_TYPE, GROUP_ALL, GROUP_ANY}
HasTypeFilter == GROUP_TYPE \in DOMAIN MainDef
NoMembers == \A l \in Range(GroupModes) : l \in DOMAIN MainDef => MainDef[l] = <<>>

\* C10: a group with a type filter and no members (member list absent or
\* empty, under either combinator) matches an item iff the item's
\* object_type is in the type filter
C10_TypeOnlyGroupMatchesByType ==
    (Called /\ IsGroupDef /\ HasTypeFilter /\ NoMembers) =>
        last_call.out = Bool(CalledItem.object_type \in Range(MainDef[GROUP_TYPE]))

----------------------------------------------------------------------------
(* Properties of JamaFilter.__call__ *)

\* the main predicate on the i-th item against the index of the collection
MainHolds(i) ==
    Call(MainCondition, items[i], ItemMap(items),
         Val(jfilter).named_conditions, MaxDepth) = "T"

\* s is seq without the elements at the positions outside keep
RECURSIVE IsSubsequenceAt(_, _, _, _)
IsSubsequenceAt(s, seq, i, keep) ==
    IF i > Len(seq) THEN s = <<>>
    ELSE IF i \in keep
         THEN /\ s # <<>>
              /\ Head(s) = seq[i]
              /\ IsSubsequenceAt(Tail(s), seq, i + 1, keep)
         ELSE IsSubsequenceAt(s, seq, i + 1, keep)

\* C1: apply returns exactly the subsequence of the input of the items for
\* which the main predicate is true against the index built from that same
\* input: no item is added, altered, reordered or dropped
C1_ApplyIsSubsequence ==
    (pc = "loaded" /\ result.st = "returned") =>
        IsSubsequenceAt(result.value, items, 1,
                        {i \in 1..Len(items) : MainHolds(i)})

\* apply kept some and dropped some of three items, two of which share an id
C1_Witness ==
    /\ pc = "loaded" /\ result.st = "returned"
    /\ Len(items) = 3
    /\ items[1].project_id = items[3].project_id
    /\ items[1] # items[3]
    /\ MainHolds(1) /\ ~MainHolds(2)
    /\ Len(result.value) \in {1, 2}

----------------------------------------------------------------------------
(* Specification of group logic: ALL and ANY over one or two members *)

\* members by name and inline; the name Missing is absent from the registry,
\* the named group Bad and the relationship condition on Missing raise when
\* they are evaluated
LogicMembers ==
    {[ref |-> "Good"], [ref |-> "Missing"], [ref |-> "Bad"],
     TAGS :> (TAGS_EXCLUDE :> "good"),
     UPSTREAM_ITEMS :> (RELS_ALL_MATCH :> "Missing")}

LogicDefs ==
    {type @@ (logic :> members) :
        type \in Optional(GROUP_TYPE, {<<"Requirement">>}),
        logic \in Range(GroupModes),
        members \in SeqsOf(LogicMembers, 1, MaxMembers)}

LogicItems ==
    {Item("i1", "Requirement", <<>>, <<"A">>, "Status" :> Open, {"good"}, <<>>, <<>>),
     Item("i2", "Requirement", <<>>, <<"A">>, EmptyDict, {}, <<>>, <<>>),
     Item("i3", "Test", <<>>, <<"A">>, "Status" :> Open, {}, <<>>, <<>>)}

InitLogic ==
    \E def \in LogicDefs, its \in SeqsOf(LogicItems, 1, MaxGroupItems) :
        Start(("main" :> def) @@ Registry, its)

SpecLogic == InitLogic /\ [][Next]_vars

----------------------------------------------------------------------------
(* Properties of group construction and group logic *)

\* C11: constructing a group that has neither a type filter nor at least one
\* member (member list absent or empty) fails with InvalidCondition
C11_EmptyGroupRaisesInvalidCondition ==
    (LoadDone /\ IsGroupDef /\ ~HasTypeFilter /\ NoMembers) =>
        LoadFailed /\ load_error = InvalidCondition

IsAllGroup == IsGroupDef /\ GROUP_ALL \in DOMAIN MainDef
IsAnyGroup == IsGroupDef /\ GROUP_ANY \in DOMAIN MainDef
TypeFilterAdmits(item) ==
    HasTypeFilter => item.object_type \in Range(MainDef[GROUP_TYPE])

\* the outcome of a group member evaluated alone on an item
MemberAlone(m, item) ==
    IF IsRef(m)
    THEN IF m.ref \in DOMAIN Val(jfilter).named_conditions
         THEN Call(Val(jfilter).named_conditions[m.ref], item, ItemMap(items),
                   Val(jfilter).named_conditions, MaxDepth)
         ELSE InvalidCondition
    ELSE Call(m, item, ItemMap(items), Val(jfilter).named_conditions, MaxDepth)

BuiltMembers == Val(MainCondition.conditions)

\* C12: evaluating an ALL group on an item raises InvalidCondition whenever
\* some member would raise InvalidCondition if evaluated alone on that item,
\* even when an earlier member has already evaluated to false
C12_AllGroupNeverHidesInvalid ==
    (/\ Called /\ IsAllGroup /\ TypeFilterAdmits(CalledItem)
     /\ \E i \in 1..Len(BuiltMembers) :
            MemberAlone(BuiltMembers[i], CalledItem) = InvalidCondition) =>
        last_call.out = InvalidCondition

\* the result of filtering the collection with the definition of one member
\* as the main condition
AloneDefs(m) ==
    IF IsRef(m)
    THEN IF m.ref \in DOMAIN conditions THEN {conditions[m.ref]} ELSE {}
    ELSE {m}

AppliedAlone(loaded) ==
    IF IsOk(loaded) THEN JamaFilterCall(Val(loaded.v), items)
    ELSE [st |-> loaded.st, value |-> <<>>]

FilteredAlone(m) ==
    IF AloneDefs(m) = {} THEN [st |-> InvalidCondition, value |-> <<>>]
    ELSE AppliedAlone(JamaFilterLoad([conditions EXCEPT
                                          !["main"] = CHOOSE d \in AloneDefs(m) : TRUE]))

ReturnedAlone(m) == FilteredAlone(m).st = "returned"

TwoMemberAnyGroup ==
    /\ pc = "loaded" /\ result # NoResult
    /\ IsAnyGroup /\ ~HasTypeFilter
    /\ Len(MainDef[GROUP_ANY]) = 2
    /\ ReturnedAlone(MainDef[GROUP_ANY][1])
    /\ ReturnedAlone(MainDef[GROUP_ANY][2])

UnionPositions(r1, r2) ==
    {i \in 1..Len(items) : items[i] \in Range(r1.value) \cup Range(r2.value)}

\* C13: filtering with an ANY group of [c1, c2] returns exactly the items
\* returned by filtering with c1 alone or with c2 alone, each input item at
\* most once and in input order
C13_AnyGroupIsUnion ==
    TwoMemberAnyGroup =>
        /\ result.st = "returned"
        /\ IsSubsequenceAt(result.value, items, 1,
                           UnionPositions(FilteredAlone(MainDef[GROUP_ANY][1]),
                                          FilteredAlone(MainDef[GROUP_ANY][2])))

\* an ANY group of two conditions that each keep one item, not the same one,
\* kept both items
C13_Witness ==
    /\ TwoMemberAnyGroup
    /\ Len(items) = 2
    /\ FilteredAlone(MainDef[GROUP_ANY][1]).value = <<items[2]>>
    /\ FilteredAlone(MainDef[GROUP_ANY][2]).value = <<items[1]>>
    /\ items[1] # items[2]
    /\ result.value = items

----------------------------------------------------------------------------
(* Properties of evaluation as a whole: errors, determinism, frame *)

\* the outcome of the main predicate on the i-th item of the collection
MainOutcome(i) ==
    Call(MainCondition, items[i], ItemMap(items),
         Val(jfilter).named_conditions, MaxDepth)

Applied == pc = "loaded" /\ result # NoResult

\* C14: if evaluating the main predicate raises a configuration error on any
\* item of the collection, apply returns no result at all: the caller never
\* receives the items matched before the failing item
C14_NoPartialResult ==
    (Applied /\ \E i \in 1..Len(items) : MainOutcome(i) = InvalidCondition) =>
        /\ result.st = InvalidCondition
        /\ result.value = <<>>

\* apply raised on the second item after the first item had matched
C14_Witness ==
    /\ Applied
    /\ Len(items) = 2
    /\ MainOutcome(1) = "T"
    /\ MainOutcome(2) = InvalidCondition
    /\ result.st = InvalidCondition

\* the outcome recorded for item i agrees with what apply decided for it
AgreesWithApply ==
    (Called /\ Applied) =>
        IF result.st = "returned"
        THEN last_call.out = Bool(CalledItem \in Range(result.value))
        ELSE \E i \in 1..Len(items) : MainOutcome(i) = result.st

----------------------------------------------------------------------------
(* Properties of neighbor resolution *)

NestedDefined == NestedName \in DOMAIN Val(jfilter).named_conditions

\* the outcome of the nested condition on the neighbor at position i of the
\* relationship list
NestedOn(i) ==
    Call(Val(jfilter).named_conditions[NestedName],
         ItemWithId(CalledRels[i].project_id), ItemMap(items),
         Val(jfilter).named_conditions, MaxDepth)

HasAbsentNeighbor ==
    \E i \in 1..Len(CalledRels) : CalledRels[i].project_id \notin ItemIds

\* C17 as stated: for every accepted relationship predicate whose nested
\* named condition exists in the registry, evaluation on an item whose lists
\* contain ids absent from the index returns a boolean and never raises
C17_AbsentNeighborsNeverRaise ==
    (Called /\ IsRelDef /\ HasAbsentNeighbor /\ NestedDefined) =>
        IsBool(last_call.out)

\* C17: for every accepted relationship predicate whose nested named
\* condition exists in the registry and evaluates to a boolean on every
\* resolved neighbor, evaluation on an item whose lists contain ids absent
\* from the index returns a boolean and never raises
C17_AbsentNeighborsTolerated ==
    (/\ Called /\ IsRelDef /\ HasAbsentNeighbor /\ NestedDefined
     /\ \A i \in Resolved : IsBool(NestedOn(i))) =>
        IsBool(last_call.out)

\* a count match over a resolved and an unresolved neighbor returned true
C17_Witness ==
    /\ Called /\ IsRelDef /\ HasLogic(RELS_COUNT_MATCH)
    /\ NestedName = "Good"
    /\ Resolved # {} /\ Unresolved # {}
    /\ last_call.out = "T"

UnknownsAbsentOrTolerated == CountsUnknowns \/ Unresolved = {}

\* the nested condition exists and has the outcome out on every resolved
\* neighbor
NestedIsOnAll(out) ==
    \A i \in Resolved : NestedDefined /\ NestedOn(i) = out

\* C19 as stated: when unknown neighbors are absent or tolerated, all_match
\* is true iff the nested condition is true on every resolved neighbor and
\* none_match is true iff it is false on every resolved neighbor; both are
\* vacuously true when there is no resolved neighbor
C19_Quantifiers ==
    (Called /\ IsRelDef /\ UnknownsAbsentOrTolerated) =>
        /\ HasLogic(RELS_ALL_MATCH) => (last_call.out = "T" <=> NestedIsOnAll("T"))
        /\ HasLogic(RELS_NONE_MATCH) => (last_call.out = "T" <=> NestedIsOnAll("F"))

\* C19: the same, for a nested name that is defined in the registry; when
\* the nested condition is a boolean on every resolved neighbor so is the
\* outcome
C19_QuantifiersWhenNameKnown ==
    (Called /\ IsRelDef /\ UnknownsAbsentOrTolerated /\ NestedDefined) =>
        /\ HasLogic(RELS_ALL_MATCH) => (last_call.out = "T" <=> NestedIsOnAll("T"))
        /\ HasLogic(RELS_NONE_MATCH) => (last_call.out = "T" <=> NestedIsOnAll("F"))
        /\ (HasLogic(RELS_ALL_MATCH) \/ HasLogic(RELS_NONE_MATCH))
              /\ (\A i \in Resolved : IsBool(NestedOn(i)))
              => IsBool(last_call.out)

\* none match held on an item all of whose neighbors are unresolved
C19_Witness ==
    /\ Called /\ IsRelDef /\ HasLogic(RELS_NONE_MATCH)
    /\ NestedDefined /\ CountsUnknowns
    /\ Resolved = {} /\ Unresolved # {}
    /\ last_call.out = "T"

HasTypeList == RELS_WITH_TYPE \in DOMAIN RelDef

\* the item without the relationships whose type is not listed
WithoutUnlisted(item) ==
    [item EXCEPT !.upstream = SelectSeq(@, AllowedType),
                 !.downstream = SelectSeq(@, AllowedType)]

UnlistedUnresolved ==
    {i \in 1..Len(CalledRels) :
        ~AllowedType(CalledRels[i]) /\ CalledRels[i].project_id \notin ItemIds}

\* C20: with a type allow-list, relationships whose type is not listed are
\* discarded before neighbor resolution: the outcome is the outcome on the
\* item without them, and an unresolved neighbor of a non-listed type does
\* not trigger the all_match/none_match veto
C20_UnlistedTypesDiscarded ==
    (Called /\ IsRelDef /\ HasTypeList) =>
        /\ last_call.out =
               Call(MainCondition, WithoutUnlisted(CalledItem), ItemMap(items),
                    Val(jfilter).named_conditions, MaxDepth)
        /\ (VetoCase /\ NestedDefined) => last_call.out = "F"
        /\ (/\ ~CountsUnknowns /\ NestedDefined
            /\ Unresolved = {} /\ Resolved = {}
            /\ HasLogic(RELS_ALL_MATCH) \/ HasLogic(RELS_NONE_MATCH))
              => last_call.out = "T"

\* all match without count_unknowns held on an item with a resolved neighbor
\* and an unresolved neighbor of a type that is not listed
C20_Witness ==
    /\ Called /\ IsRelDef /\ HasTypeList
    /\ HasLogic(RELS_ALL_MATCH) /\ ~CountsUnknowns
    /\ UnlistedUnresolved # {}
    /\ Resolved # {}
    /\ last_call.out = "T"

----------------------------------------------------------------------------
(* RestApi: credentials of the clients of one subclass *)

RestApiAuthException == "RestApiAuthException"

\* class attribute AUTH_REQUIRED
AUTH_REQUIRED == TRUE

\* what askauth can return: None when the dialog is cancelled, or the
\* username and the password that were entered, either of which may be empty
Answers ==
    {None} \cup {Some(<<u, p>>) : u \in {"", "u1", "u2"}, p \in {"", "p"}}

\* the auth argument of the constructor
GivenAuth == {None, Some(<<"u0", "p">>)}

\* not (not auth or not all(auth))
AuthPresent(auth) ==
    ~IsNone(auth) /\ \A i \in 1..Len(Val(auth)) : Val(auth)[i] # ""

\* RestApi.__init__(title, message, auth): the instance attribute is set
\* whether or not credentials are given
RestApiInit(auth) ==
    /\ Len(clients) < MaxClients
    /\ clients' = Append(clients, [_authentication |-> auth])
    /\ UNCHANGED <<class_authentication, dialogs, last_auth, filter_vars, comp_vars>>

\* the body of prompt_for_auth under AUTH_LOCK when the instance attribute
\* is None: the answer is stored on the instance, checked, and stored on the
\* class if the class has none
AskAuth(c, answer) ==
    /\ dialogs < MaxDialogs
    /\ dialogs' = dialogs + 1
    /\ clients' = [clients EXCEPT ![c]._authentication = answer]
    /\ IF AuthPresent(answer)
       THEN /\ class_authentication' =
                   IF IsNone(class_authentication) THEN answer
                   ELSE class_authentication
            /\ last_auth' = [client |-> c, asked |-> TRUE, out |-> "ok"]
       ELSE /\ UNCHANGED class_authentication
            /\ last_auth' = [client |-> c, asked |-> TRUE,
                             out |-> RestApiAuthException]

\* RestApi.prompt_for_auth on the c-th client
PromptForAuth(c, answer) ==
    /\ c \in 1..Len(clients)
    /\ IF ~AUTH_REQUIRED
       THEN UNCHANGED rest_vars
       ELSE IF IsNone(clients[c]._authentication)
       THEN AskAuth(c, answer)
       ELSE /\ last_auth' = [client |-> c, asked |-> FALSE, out |-> "ok"]
            /\ UNCHANGED <<class_authentication, clients, dialogs>>
    /\ UNCHANGED <<filter_vars, comp_vars>>

NextRest ==
    \/ \E auth \in GivenAuth : RestApiInit(auth)
    \/ \E c \in 1..MaxClients, answer \in Answers : PromptForAuth(c, answer)

InitRest == Start(EmptyDict, <<>>)

SpecRest == InitRest /\ [][NextRest]_vars

\* C18: once one client has obtained credentials from the user through the
\* auth dialog, another client of the same class created without credentials
\* authenticates with those stored credentials and does not prompt the user
\* again
C18_StoredCredentialsReused ==
    [][\A c \in 1..Len(clients) :
          (/\ \E answer \in Answers : PromptForAuth(c, answer)
           /\ ~IsNone(class_authentication)
           /\ IsNone(clients[c]._authentication))
          => /\ dialogs' = dialogs
             /\ clients'[c]._authentication = class_authentication]_vars

----------------------------------------------------------------------------
(* Properties of the type filter, duplicate ids, missing names, fields *)

\* C21: a group with a type filter returns false, without raising, for
\* every item whose object_type is not in the filter, whatever its members
\* are: no member is resolved or evaluated for such an item
C21_TypeFilterDecidesFirst ==
    (Called /\ IsGroupDef /\ HasTypeFilter /\ ~TypeFilterAdmits(CalledItem)) =>
        last_call.out = "F"

\* a group whose first member is a name the registry lacks returned false
\* for an item of another type
C21_Witness ==
    /\ Called /\ IsGroupDef /\ HasTypeFilter
    /\ ~TypeFilterAdmits(CalledItem)
    /\ BuiltMembers[1] = [ref |-> "Missing"]
    /\ last_call.out = "F"

\* the last item of the collection with the given id
LastWithId(id) ==
    items[CHOOSE j \in 1..Len(items) :
             /\ items[j].project_id = id
             /\ \A k \in 1..Len(items) : items[k].project_id = id => k <= j]

HasDuplicateIds ==
    \E i, j \in 1..Len(items) : i # j /\ items[i].project_id = items[j].project_id

\* the neighbors of the evaluated item of an allowed type, as the last items
\* with their ids
LastNeighbors ==
    {LastWithId(CalledRels[i].project_id) : i \in Resolved}

IsTagsIncludeGood == MainDef = (TAGS :> (TAGS_INCLUDE :> "good"))

\* C22: when several input items share an id, the index maps the id to the
\* last such item in input order, so every neighbor reference to the id is
\* resolved to the last duplicate and the nested condition is evaluated on
\* it; each duplicate is still evaluated on its own attributes as a
\* candidate and may appear in the output
C22_LastDuplicateWins ==
    /\ (Called /\ IsRelDef /\ RelLogics # {} /\ NestedName = "Good"
           /\ UnknownsAbsentOrTolerated) =>
          /\ HasLogic(RELS_ALL_MATCH) =>
                last_call.out = Bool(\A n \in LastNeighbors : "good" \in n.tags)
          /\ HasLogic(RELS_NONE_MATCH) =>
                last_call.out = Bool(\A n \in LastNeighbors : "good" \notin n.tags)
    /\ (Applied /\ IsTagsIncludeGood) =>
          /\ result.st = "returned"
          /\ result.value = SelectSeq(items, LAMBDA it : "good" \in it.tags)

\* none match held on an item whose neighbor id is shared by an earlier item
\* with the tag and a later item without it
C22_Witness ==
    /\ Called /\ IsRelDef /\ HasLogic(RELS_NONE_MATCH)
    /\ Len(items) = 3
    /\ items[1].project_id = "a" /\ "good" \in items[1].tags
    /\ items[2].project_id = "a" /\ "good" \notin items[2].tags
    /\ last_call.item = 3
    /\ Resolved # {}
    /\ last_call.out = "T"

\* C28: a relationship predicate whose nested named condition is absent
\* from the registry raises InvalidCondition on every item it is evaluated
\* on, including items that have no relationship in that direction and
\* items for which the unknown-neighbor veto would otherwise decide: the
\* name is resolved before any relationship is inspected
C28_MissingNestedNameAlwaysRaises ==
    (Called /\ IsRelDef /\ RelLogics # {} /\ ~NestedDefined) =>
        last_call.out = InvalidCondition

\* the predicate raised on an item to which the veto applies
C28_Witness ==
    /\ VetoCase
    /\ ~NestedDefined
    /\ Resolved = {}
    /\ last_call.out = InvalidCondition

FieldDef == MainDef[FIELD]
ValueOmitted == FIELD_VALUE \notin DOMAIN FieldDef
RequiredFalse == FIELD_REQUIRED \in DOMAIN FieldDef /\ ~FieldDef[FIELD_REQUIRED]

\* C29: a field condition with required=False and no value comparator is
\* rejected at construction with InvalidCondition, and a field condition
\* that omits required is treated as required; hence every constructed field
\* condition without a comparator is required and is true exactly when the
\* item has the field
C29_FieldWithoutComparator ==
    /\ (LoadDone /\ FIELD \in DOMAIN MainDef /\ ValueOmitted /\ RequiredFalse) =>
          LoadFailed /\ load_error = InvalidCondition
    /\ (pc = "loaded" /\ FIELD \in DOMAIN MainDef
           /\ FIELD_REQUIRED \notin DOMAIN FieldDef) =>
          MainCondition.field_required = Some(TRUE)
    /\ (Called /\ FIELD \in DOMAIN MainDef /\ IsNone(MainCondition.field_logic)) =>
          /\ MainCondition.field_required = Some(TRUE)
          /\ last_call.out = Bool(FieldDef[FIELD_NAME] \in DOMAIN CalledItem.fields)

\* the load of an optional field condition without a value was rejected
C29_Witness ==
    /\ LoadFailed
    /\ FIELD \in DOMAIN MainDef
    /\ ValueOmitted /\ RequiredFalse
    /\ load_error = InvalidCondition

----------------------------------------------------------------------------
(* Filters without relationship predicates *)

\* the definition, or a definition reachable from it through group members,
\* has an upstream items or a downstream items block
RECURSIVE UsesRelationships(_, _)
UsesRelationships(def, fuel) ==
    \/ DOMAIN def \cap {UPSTREAM_ITEMS, DOWNSTREAM_ITEMS} # {}
    \/ /\ fuel > 0
       /\ \E k \in DOMAIN def \cap {GROUP_ALL, GROUP_ANY} :
             \E i \in 1..Len(def[k]) :
                IF IsRef(def[k][i])
                THEN /\ def[k][i].ref \in DOMAIN conditions \ {"main"}
                     /\ UsesRelationships(conditions[def[k][i].ref], fuel - 1)
                ELSE UsesRelationships(def[k][i], fuel - 1)

RelationshipFree == ~UsesRelationships(MainDef, MaxDepth)

\* apply(X) ++ apply(Y): the exception of X, else the exception of Y, else
\* the two results one after the other
ApplyConcat(rx, ry) ==
    IF rx.st # "returned" THEN rx
    ELSE IF ry.st # "returned" THEN ry
    ELSE [st |-> "returned", value |-> rx.value \o ry.value]

\* C30: for a filter whose main predicate and every named condition
\* reachable from it contain no relationship predicate, the result depends on
\* each item alone: apply(X ++ Y) = apply(X) ++ apply(Y) for every split of
\* the collection, and apply(apply(X)) = apply(X)
C30_RelationshipFreeApplyIsItemwise ==
    (Applied /\ RelationshipFree) =>
        /\ \A k \in 0..Len(items) :
              result = ApplyConcat(
                           JamaFilterCall(Val(jfilter), SubSeq(items, 1, k)),
                           JamaFilterCall(Val(jfilter), SubSeq(items, k + 1, Len(items))))
        /\ result.st = "returned" =>
              JamaFilterCall(Val(jfilter), result.value) = result

\* a group kept the two items that share an id and dropped the third item
C30_Witness ==
    /\ Applied /\ RelationshipFree
    /\ IsGroupDef
    /\ result.st = "returned"
    /\ Len(items) = 3
    /\ Len(result.value) = 2
    /\ result.value[1].project_id = result.value[2].project_id

----------------------------------------------------------------------------
(* Named conditions that refer to each other *)

\* the registry of the document: every name but main
RegistryNames == DOMAIN conditions \ {"main"}

\* the names a definition refers to: the nested names of its relationship
\* blocks and the names among its members, inline members included
RECURSIVE DefRefs(_, _)
DefRefs(def, fuel) ==
    UNION {{def[d][l] : l \in DOMAIN def[d] \cap Range(RelsModes)} :
              d \in DOMAIN def \cap {UPSTREAM_ITEMS, DOWNSTREAM_ITEMS}}
    \cup
    (IF fuel = 0 THEN {}
     ELSE UNION {UNION {IF IsRef(def[g][i]) THEN {def[g][i].ref}
                        ELSE DefRefs(def[g][i], fuel - 1) :
                           i \in 1..Len(def[g])} :
                    g \in DOMAIN def \cap {GROUP_ALL, GROUP_ANY}})

NameRefs(n) == IF n \in RegistryNames THEN DefRefs(conditions[n], MaxDepth) ELSE {}

\* m is reached from the names in from in at most fuel + 1 references
RECURSIVE ReachedFrom(_, _, _)
ReachedFrom(from, m, fuel) ==
    \/ m \in from
    \/ fuel > 0 /\ \E k \in from : ReachedFrom(NameRefs(k), m, fuel - 1)

Reaches(n, m) == ReachedFrom(NameRefs(n), m, Cardinality(RegistryNames))

\* some named condition reaches itself through name references
Cyclic == \E n \in RegistryNames : Reaches(n, n)

\* the main predicate refers, directly or through names, to a name on a cycle
MainReachesCycle ==
    \E n \in RegistryNames :
        /\ Reaches(n, n)
        /\ ReachedFrom(DefRefs(MainDef, MaxDepth), n, Cardinality(RegistryNames))

CycleRegistries ==
    {("Good" :> (TAGS :> (TAGS_INCLUDE :> "good")))
         @@ ("Chain" :> (UPSTREAM_ITEMS :> (RELS_NONE_MATCH :> "Good")))
         @@ ("Chain2" :> (UPSTREAM_ITEMS :> (RELS_ALL_MATCH :> "Chain"))),
     "Self" :> (GROUP_ALL :> <<[ref |-> "Self"]>>),
     ("Ping" :> (GROUP_ALL :> <<[ref |-> "Pong"]>>))
         @@ ("Pong" :> (GROUP_ANY :> <<[ref |-> "Ping"]>>)),
     "Loop" :> (UPSTREAM_ITEMS :> (RELS_ALL_MATCH :> "Loop")),
     "Guard" :> (GROUP_ALL :> <<TAGS :> (TAGS_EXCLUDE :> "good"), [ref |-> "Guard"]>>),
     "Typed" :> ((GROUP_TYPE :> <<"Requirement">>)
                     @@ (GROUP_ALL :> <<[ref |-> "Typed"]>>))}

\* main refers to a name of the registry from a group or from a relationship
\* block, or a group refers to main
CycleMains(registry) ==
    {GROUP_ALL :> <<[ref |-> n]>> : n \in DOMAIN registry \cup {"main"}}
        \cup {UPSTREAM_ITEMS :> (RELS_ALL_MATCH :> n) : n \in DOMAIN registry}
        \cup {UPSTREAM_ITEMS :> (RELS_NONE_MATCH :> n) : n \in DOMAIN registry}

\* two ids; x and y are upstream of each other, the second x is upstream of
\* itself and the second y has no upstream item
CyclePool ==
    {Item("x", "Requirement", <<>>, <<"A">>, EmptyDict, {"good"},
          <<Relationship("y", "t1")>>, <<>>),
     Item("x", "Test", <<>>, <<"A">>, EmptyDict, {},
          <<Relationship("x", "t1")>>, <<>>),
     Item("y", "Requirement", <<>>, <<"A">>, EmptyDict, {},
          <<Relationship("x", "t1")>>, <<>>),
     Item("y", "Test", <<>>, <<"A">>, EmptyDict, {"good"}, <<>>, <<>>)}

InitCycle ==
    \E registry \in CycleRegistries :
        \E def \in CycleMains(registry), its \in SeqsOf(CyclePool, 1, MaxGroupItems) :
            Start(("main" :> def) @@ registry, its)

SpecCycle == InitCycle /\ [][Next]_vars

\* C23: a filter whose named-condition references form a cycle is rejected
\* with a configuration error when the filter and its registry are built
C23_CyclesRejectedAtLoad ==
    (LoadDone /\ Cyclic) => LoadFailed

\* every member of the definition is a name of the registry
OnlyNames(def) ==
    /\ DOMAIN def \subseteq {GROUP_ALL, GROUP_ANY}
    /\ \A g \in DOMAIN def : \A i \in 1..Len(def[g]) :
          IsRef(def[g][i]) /\ def[g][i].ref \in RegistryNames

\* every definition reached from the names is a group without a type filter
\* whose members are all names
RECURSIVE Inescapable(_, _)
Inescapable(names, fuel) ==
    \A n \in names :
        /\ OnlyNames(conditions[n])
        /\ fuel = 0 \/ Inescapable(NameRefs(n), fuel - 1)

\* main is a group of names from which only groups of names are reached
GroupsOfNamesOnly ==
    /\ OnlyNames(MainDef)
    /\ Inescapable(DefRefs(MainDef, MaxDepth), Cardinality(RegistryNames))

\* main reaches a relationship block nested in itself and every item of the
\* index has upstream relationships, all to items of the index
LoopOverRelationshipCycle ==
    /\ DefRefs(MainDef, MaxDepth) = {"Loop"}
    /\ "Loop" \in RegistryNames
    /\ \A i \in 1..Len(items) :
          /\ items[i].upstream # <<>>
          /\ \A j \in 1..Len(items[i].upstream) :
                items[i].upstream[j].project_id \in ItemIds

C27_AcyclicNamesTerminate ==
    ~Cyclic =>
        /\ Called => last_call.out # Diverges
        /\ Applied => result.st # Diverges

\* a predicate nested two names deep was applied to two items that are
\* upstream of each other
C27_Witness ==
    /\ Applied /\ ~Cyclic
    /\ DefRefs(MainDef, MaxDepth) = {"Chain2"}
    /\ Len(items) = 2
    /\ items[1].project_id = "x" /\ items[1].upstream = <<Relationship("y", "t1")>>
    /\ items[2].project_id = "y" /\ items[2].upstream = <<Relationship("x", "t1")>>
    /\ result.st = "returned"

----------------------------------------------------------------------------
(* The comparators called directly *)

\* modes that no comparator knows, and the modes of the other comparators
StrangeModes == {"starts with", "any match"}
StrLogics == Range(StrModes) \cup StrangeModes \cup Range(RelsModes)
    \cup {NUM_GREATER_THAN, NUM_LESS_THAN_EQ}
NumLogics == Range(NumEqModes) \cup Range(NumOrdModes) \cup StrangeModes
    \cup Range(RelsModes) \cup {STR_CONTAINS, STR_MATCHES}
RelLogicsGiven == {RELS_ALL_MATCH, RELS_NONE_MATCH} \cup StrangeModes
    \cup {STR_IS, NUM_IN, GROUP_ALL, GROUP_ANY}

StrValues == {Open, OpenLower, Closed}
StrLists == {<<>>, <<Open>>, <<Closed, Open>>}
NumValues == 0..2
NumLists == {<<>>, <<1>>, <<0, 2>>}

\* Condition._strcomp(value, comp_value, logic)
StrComp ==
    \E logic \in StrLogics, value \in StrValues :
        \E comp_value \in IF logic \in {STR_IN, STR_NOT_IN} THEN StrLists
                          ELSE IF logic \in Range(StrModes) THEN StrValues
                          ELSE StrValues \cup StrLists :
            /\ comparison' = [fn |-> "_strcomp", logic |-> logic,
                              out |-> _strcomp(value, comp_value, logic)]
            /\ UNCHANGED <<filter_vars, rest_vars>>

\* the comparison values a logic is called with: a list for the membership
\* modes, a number for the other known modes, either for an unknown mode
NumCompValues(logic, lists) ==
    IF logic \in {NUM_IN, NUM_NOT_IN} THEN (IF lists THEN NumLists ELSE {})
    ELSE IF logic \in Range(NumEqModes) \cup Range(NumOrdModes)
    THEN (IF lists THEN {} ELSE NumValues)
    ELSE (IF lists THEN NumLists ELSE NumValues)

\* Condition._numcomp(value, comp_value, logic)
NumComp ==
    \E logic \in NumLogics, value \in NumValues, lists \in BOOLEAN :
        \E comp_value \in NumCompValues(logic, lists) :
            /\ comparison' = [fn |-> "_numcomp", logic |-> logic,
                              out |-> _numcomp(value, comp_value, logic)]
            /\ UNCHANGED <<filter_vars, rest_vars>>

\* Condition._relcomp(related_items, condition, logic, item_map,
\* named_conditions) with the loaded main condition on the whole collection
RelComp ==
    /\ pc = "loaded"
    /\ \E logic \in RelLogicsGiven :
          comparison' = [fn |-> "_relcomp", logic |-> logic,
                         out |-> _relcomp(items, Val(jfilter).main_condition, logic,
                                          ItemMap(items),
                                          Val(jfilter).named_conditions, MaxDepth)]
    /\ UNCHANGED <<filter_vars, rest_vars>>

NextComp == Load \/ StrComp \/ NumComp \/ RelComp

CompItems ==
    {Item("a", "Requirement", <<>>, <<"A">>, EmptyDict, {"good"}, <<>>, <<>>),
     Item("b", "Test", <<>>, <<"B">>, EmptyDict, {}, <<>>, <<>>)}

InitComp ==
    \E its \in SeqsOf(CompItems, 0, MaxGroupItems) :
        Start("main" :> (TAGS :> (TAGS_INCLUDE :> "good")), its)

SpecComp == InitComp /\ [][NextComp]_vars

\* the logics each comparator knows
KnownLogics(fn) ==
    IF fn = "_strcomp" THEN Range(StrModes)
    ELSE IF fn = "_numcomp" THEN Range(NumEqModes) \cup Range(NumOrdModes)
    ELSE {RELS_ALL_MATCH, RELS_NONE_MATCH}

Compared == comparison # NoComparison

----------------------------------------------------------------------------
(* How far a relationship predicate looks *)

\* the nested names of the relationship blocks that the definition evaluates
\* on the item itself: its own blocks and those of its members
RECURSIVE NestedNamesOf(_, _)
NestedNamesOf(def, fuel) ==
    UNION {{def[d][l] : l \in DOMAIN def[d] \cap Range(RelsModes)} :
              d \in DOMAIN def \cap {UPSTREAM_ITEMS, DOWNSTREAM_ITEMS}}
    \cup
    (IF fuel = 0 THEN {}
     ELSE UNION {UNION {IF ~IsRef(def[g][i]) THEN NestedNamesOf(def[g][i], fuel - 1)
                        ELSE IF def[g][i].ref \in RegistryNames
                        THEN NestedNamesOf(conditions[def[g][i].ref], fuel - 1)
                        ELSE {} :
                           i \in 1..Len(def[g])} :
                    g \in DOMAIN def \cap {GROUP_ALL, GROUP_ANY}})

\* no condition that is evaluated on a neighbor has a relationship block
OneLevel ==
    \A n \in NestedNamesOf(MainDef, MaxDepth) :
        n \in RegistryNames => ~UsesRelationships(conditions[n], MaxDepth)

DepthPool ==
    {Item("a", "Requirement", <<>>, <<"A">>, EmptyDict, {},
          <<Relationship("b", "t1")>>, <<>>),
     Item("b", "Requirement", <<>>, <<"A">>, EmptyDict, {"good"},
          <<Relationship("c", "t1")>>, <<Relationship("a", "t1")>>),
     Item("c", "Test", <<>>, <<"A">>, EmptyDict, {"good"},
          <<>>, <<Relationship("b", "t1")>>),
     Item("c", "Test", <<>>, <<"A">>, EmptyDict, {},
          <<>>, <<Relationship("b", "t1")>>)}

DepthRegistry ==
    ("Good" :> (TAGS :> (TAGS_INCLUDE :> "good")))
        @@ ("Chain" :> (UPSTREAM_ITEMS :> (RELS_ALL_MATCH :> "Good")))

DepthMains ==
    {UPSTREAM_ITEMS :> (RELS_ALL_MATCH :> "Good"),
     UPSTREAM_ITEMS :> ((RELS_NONE_MATCH :> "Good") @@ (RELS_COUNT_UNKNOWNS :> TRUE)),
     DOWNSTREAM_ITEMS :> (RELS_ALL_MATCH :> "Good"),
     UPSTREAM_ITEMS :> (RELS_ALL_MATCH :> "Chain"),
     GROUP_ALL :> <<[ref |-> "Chain"]>>,
     GROUP_ANY :> <<[ref |-> "Good"], [ref |-> "Chain"]>>}

DepthCollections == SeqsOf(DepthPool, 1, MaxItems)

InitDepth ==
    \E def \in DepthMains, its \in DepthCollections :
        Start(("main" :> def) @@ DepthRegistry, its)

SpecDepth == InitDepth /\ [][Next]_vars

IdsOf(its) == {its[i].project_id : i \in 1..Len(its)}

\* the collection has the item, and resolves each id of the item's upstream
\* and downstream relationships as the evaluated collection does
AgreesAround(its, item) ==
    /\ item \in Range(its)
    /\ \A id \in {item.upstream[j].project_id : j \in 1..Len(item.upstream)}
                 \cup {item.downstream[j].project_id : j \in 1..Len(item.downstream)} :
          /\ id \in IdsOf(its) <=> id \in IdsOf(items)
          /\ id \in IdsOf(items) => ItemMap(its)[id] = ItemMap(items)[id]

\* the outcome of the main predicate on the evaluated item in the collection
OutcomeIn(its) ==
    Call(Val(jfilter).main_condition, CalledItem, ItemMap(its),
         Val(jfilter).named_conditions, MaxDepth)

\* C25 as stated: two collections that agree on the item and on its direct
\* upstream and downstream neighbors give the same result for it
C25_DependsOnDirectNeighborsOnly ==
    Called =>
        \A its \in DepthCollections :
            AgreesAround(its, CalledItem) => OutcomeIn(its) = last_call.out

\* C25: when no condition evaluated on a neighbor is itself a relationship
\* predicate, the result of the main predicate on an item depends only on
\* the item and on the items directly related to it: two collections that
\* agree on the item and on its direct neighbors give the same result
C25_OneLevelWhenNestedHasNoRelationships ==
    (Called /\ OneLevel) =>
        \A its \in DepthCollections :
            AgreesAround(its, CalledItem) => OutcomeIn(its) = last_call.out

\* a one-level predicate held on a, and an agreeing collection has another
\* item two steps away from a
C25_Witness ==
    /\ Called /\ OneLevel /\ IsRelDef
    /\ CalledItem.project_id = "a"
    /\ Len(items) = 3
    /\ last_call.out = "T"
    /\ \E its \in DepthCollections :
          /\ AgreesAround(its, CalledItem)
          /\ "c" \in IdsOf(its) /\ "c" \in IdsOf(items)
          /\ ItemMap(its)["c"] # ItemMap(items)["c"]

====
